---- MODULE Spec2Model ----
(***************************************************************************)
(* State-machine model of the snake simulation engine                      *)
(* (client/src/game/engine/GameEngine.ts, with the helpers and constants   *)
(* it imports).                                                            *)
(*                                                                         *)
(* Representation:                                                         *)
(*   - a Position / Direction {x, y} is the pair <<x, y>>;                  *)
(*   - "T | null" fields (food, activePowerUp) are sequences of length 0   *)
(*     or 1;                                                               *)
(*   - move intervals and delta times are held in 1/Q millisecond so that  *)
(*     the engine's `currentSpeed * 0.5` stays an integer;                  *)
(*   - Date.now() is the variable `now` (milliseconds), advanced by the    *)
(*     environment between calls;                                          *)
(*   - Math.random() is a stream: the k-th call made by one engine call    *)
(*     returns RandomAt(seed, k) / RandModulus, the seed being an input    *)
(*     of that engine call.                                                *)
(***************************************************************************)
EXTENDS Integers, Sequences, FiniteSets, TLC

VARIABLES
    config,           \* GameConfig: gridSize, difficulty, mode
    state,            \* GameState
    snake,            \* Snake: segments, direction, nextDirection
    food,             \* Food | null
    powerUps,         \* PowerUp[]
    obstacles,        \* Obstacle[]
    activePowerUp,    \* ActivePowerUp | null
    stats,            \* GameStats
    lastFoodTime,     \* ms, Date.now() of the last food pickup / reset
    moveAccumulator,  \* 1/Q ms
    currentSpeed,     \* 1/Q ms per move
    frameCount,       \* update calls processed in Playing
    spatialGrid,      \* SpatialHashGrid: the entries inserted since the last clear()
    eventCallbacks,   \* Map<string, Set<callback>>: per event type, the callbacks
                      \* in insertion order
    now,              \* Date.now(), ms
    events,           \* events emitted by the last engine call, in order
    last,             \* observation of the last engine call
    subscriptions,    \* the caller's on() calls and handle calls so far, in order
    hist              \* history: the direction applied by the latest logical step, the
                      \* direction queued while Paused that no step has consumed yet,
                      \* the queued direction the latest step consumed, and the
                      \* move interval in force before the latest power-up pickup

vars == <<config, state, snake, food, powerUps, obstacles, activePowerUp, stats,
          lastFoodTime, moveAccumulator, currentSpeed, frameCount, spatialGrid,
          eventCallbacks, now, events, last, hist, subscriptions>>

\* The engine's own fields (everything but the clock and the observations).
engineVars == <<config, state, snake, food, powerUps, obstacles, activePowerUp, stats,
                lastFoodTime, moveAccumulator, currentSpeed, frameCount, spatialGrid,
                eventCallbacks>>

-----------------------------------------------------------------------------
(* Bounds of the model *)

\* config.gridSize of the engine under check.
GridSize == 4

\* Math.random() returns k / RandModulus, k in 0 .. RandModulus - 1.
RandModulus == 8

\* Date.now() is explored up to MaxNow milliseconds after construction.
MaxNow == 5000

\* update calls processed in Playing are explored up to frameCount = MaxFrames
\* (MaxFramesAny when the methods are called in any order).
MaxFrames == 5
MaxFramesAny == 1

-----------------------------------------------------------------------------
(* Program constants *)

\* Fixed-point denominator of move intervals: 150 ms halved twice is 37.5 ms.
Q == 4

INITIAL_SNAKE_LENGTH == 3
BASE_FOOD_SCORE == 10
BONUS_FOOD_SCORE == 50
GOLDEN_FOOD_SCORE == 100
COMBO_TIME_WINDOW == 2000
MAX_COMBO == 20
POWER_UP_DURATION == 5000
POWER_UP_LIFETIME == 10000
POWER_UP_MAX_COUNT == 3
LEVEL_UP_THRESHOLD == 100
MAX_OBSTACLES == 15
ObstacleCadence == 10
\* POWER_UP_SPAWN_CHANCE, in percent.
POWER_UP_SPAWN_CHANCE == 20
\* Thresholds of the food kind draw, in percent.
GoldenChance == 5
BonusChance == 20
SpeedFloor == 20
SlowCeiling == 300

\* GameEvent types; a type no on() call has named has no callbacks.
EventTypes == {"FOOD_EATEN", "POWER_UP_COLLECTED", "COLLISION", "LEVEL_UP", "GAME_OVER",
               "ACHIEVEMENT_UNLOCKED"}
NoCallbacks == [eventType \in EventTypes |-> <<>>]

GameStates == {"menu", "playing", "paused", "gameover", "loading"}
GameModes == {"classic", "arcade", "survival", "challenge", "multiplayer"}
Difficulties == {"easy", "normal", "hard", "insane"}

\* Object.values(PowerUpType), in declaration order.
PowerUpTypes == <<"speed", "slow", "ghost", "invincible", "double", "shrink", "magnet", "freeze">>

SPEED_CONFIG(d) ==
    CASE d = "easy"   -> [initial |-> 150, increment |-> 3, min |-> 80]
      [] d = "normal" -> [initial |-> 100, increment |-> 4, min |-> 50]
      [] d = "hard"   -> [initial |-> 70,  increment |-> 5, min |-> 30]
      [] d = "insane" -> [initial |-> 40,  increment |-> 3, min |-> 15]

INITIAL_LIVES(d) ==
    CASE d = "easy" -> 5 [] d = "normal" -> 3 [] d = "hard" -> 2 [] d = "insane" -> 1

\* movingChance is held in percent.
OBSTACLE_CONFIG(m) ==
    CASE m = "classic"     -> [count |-> 0,  movingChance |-> 0]
      [] m = "arcade"      -> [count |-> 5,  movingChance |-> 30]
      [] m = "survival"    -> [count |-> 8,  movingChance |-> 50]
      [] m = "challenge"   -> [count |-> 10, movingChance |-> 40]
      [] m = "multiplayer" -> [count |-> 6,  movingChance |-> 30]

UP == <<0, -1>>
DOWN == <<0, 1>>
LEFT == <<-1, 0>>
RIGHT == <<1, 0>>
Directions == {UP, DOWN, LEFT, RIGHT}
\* The array of getRandomDirection, in its order.
DirectionList == <<UP, DOWN, LEFT, RIGHT>>

-----------------------------------------------------------------------------
(* helpers.ts *)

Min(a, b) == IF a < b THEN a ELSE b
Max(a, b) == IF a > b THEN a ELSE b

positionsEqual(pos1, pos2) == pos1[1] = pos2[1] /\ pos1[2] = pos2[2]

isInBounds(pos, gridSize) ==
    pos[1] >= 0 /\ pos[1] < gridSize /\ pos[2] >= 0 /\ pos[2] < gridSize

areOppositeDirections(dir1, dir2) == dir1[1] = -dir2[1] /\ dir1[2] = -dir2[2]

\* The products baseScore * combo (food values 10, 50, 100; combo 1..20) whose
\* double-precision product with (1 + level * 0.1) falls just below the exact
\* integer value, so that Math.floor returns one less; levels 1..100.
FloatShort(level) ==
    CASE level = 4 ->
                     {90, 170, 180, 350, 650, 700, 1300, 1400}
      [] level = 13 ->
                     {50, 90, 100, 110, 170, 180, 190, 200, 350, 400, 650, 700, 750, 800,
                       850, 1300, 1400, 1500, 1600, 1700}
      [] level = 18 ->
                     {90, 170, 180, 350, 650, 700, 1300, 1400}
      [] level = 31 ->
                     {30, 50, 60, 90, 100, 110, 120, 170, 180, 190, 200, 350, 400, 450, 650,
                       700, 750, 800, 850, 900, 950, 1300, 1400, 1500, 1600, 1700, 1800, 1900}
      [] level = 36 ->
                     {50, 90, 100, 110, 170, 180, 190, 200, 350, 400, 650, 700, 750, 800,
                       850, 1300, 1400, 1500, 1600, 1700}
      [] level = 72 ->
                     {30, 50, 60, 90, 100, 110, 120, 170, 180, 190, 200, 350, 400, 450, 650,
                       700, 750, 800, 850, 900, 950, 1300, 1400, 1500, 1600, 1700, 1800, 1900}
      [] level = 77 ->
                     {50, 90, 100, 110, 170, 180, 190, 200, 350, 400, 450, 650, 700, 750,
                       800, 850, 900, 1300, 1400, 1500, 1600, 1700, 1800}
      [] OTHER -> {}

\* Math.floor(baseScore * combo * (1 + level * 0.1)), in IEEE double arithmetic
calculateScore(baseScore, combo, level) ==
    LET exact == (baseScore * combo * (10 + level)) \div 10
    IN  IF baseScore * combo \in FloatShort(level) THEN exact - 1 ELSE exact

calculateLevel(score, threshold) == (score \div threshold) + 1

-----------------------------------------------------------------------------
(* The engine object.  An operation of the engine is a function from the    *)
(* record `g` of its fields (plus the inputs of the call: now, seed; and    *)
(* what the call produces: rk, events, obs) to the record after it.         *)

This(seed) ==
    [config |-> config, state |-> state, snake |-> snake, food |-> food,
     powerUps |-> powerUps, obstacles |-> obstacles, activePowerUp |-> activePowerUp,
     stats |-> stats, lastFoodTime |-> lastFoodTime, moveAccumulator |-> moveAccumulator,
     currentSpeed |-> currentSpeed, frameCount |-> frameCount,
     spatialGrid |-> spatialGrid, eventCallbacks |-> eventCallbacks, now |-> now, seed |-> seed, rk |-> 0, events |-> <<>>,
     obs |-> [stepped |-> FALSE, collision |-> "n/a", candidate |-> <<0, 0>>,
              effect |-> "n/a", died |-> FALSE, applied |-> <<0, 0>>,
              powerUpTried |-> FALSE, delivered |-> <<>>]]

\* Numerator of the value the next Math.random() call returns.
RandomAt(seed, k) == (seed + k * 5) % RandModulus
Rand(g) == RandomAt(g.seed, g.rk)
Drawn(g) == [g EXCEPT !.rk = @ + 1]
\* Math.floor(Math.random() * n)
RandomIndex(g, n) == (Rand(g) * n) \div RandModulus

\* Variant: a new callback goes in front of the others.
onInFront(g, eventType, callback) ==
    IF \E i \in 1..Len(g.eventCallbacks[eventType]) :
           g.eventCallbacks[eventType][i] = callback
    THEN g
    ELSE [g EXCEPT !.eventCallbacks[eventType] = <<callback>> \o @]

\* on(eventType, callback): Set.add appends a callback the set does not hold
\* and leaves the set alone otherwise.
on(g, eventType, callback) ==
    IF \E i \in 1..Len(g.eventCallbacks[eventType]) :
           g.eventCallbacks[eventType][i] = callback
    THEN g
    ELSE [g EXCEPT !.eventCallbacks[eventType] = Append(@, callback)]

\* The handle on() returned: eventCallbacks.get(eventType)?.delete(callback)
unsubscribe(g, eventType, callback) ==
    [g EXCEPT !.eventCallbacks[eventType] = SelectSeq(@, LAMBDA c : c # callback)]

\* callbacks.forEach(callback => callback(event)): `delivered` records each
\* call of a callback, in the order the calls are made.
emitEvent(g, event) ==
    LET callbacks == g.eventCallbacks[event.type]
    IN  [g EXCEPT !.events = Append(@, event),
                  !.obs.delivered = @ \o [i \in 1..Len(callbacks) |->
                                            [callback |-> callbacks[i], event |-> event]]]

ActiveType(g) == IF Len(g.activePowerUp) = 0 THEN "none" ELSE g.activePowerUp[1].type

\* The grid's cells in the scan order of getAvailablePositions: x outer, y inner.
CellAt(i, gridSize) == <<(i - 1) \div gridSize, (i - 1) % gridSize>>

\* Variant: the power-ups are not looked at.
occupiedButForPowerUps(g, pos) ==
    \/ \E i \in 1..Len(g.snake.segments) : positionsEqual(g.snake.segments[i], pos)
    \/ (Len(g.food) > 0 /\ positionsEqual(g.food[1].position, pos))
    \/ \E i \in 1..Len(g.obstacles) : positionsEqual(g.obstacles[i].position, pos)

occupied(g, pos) ==
    \/ \E i \in 1..Len(g.snake.segments) : positionsEqual(g.snake.segments[i], pos)
    \/ (Len(g.food) > 0 /\ positionsEqual(g.food[1].position, pos))
    \/ \E i \in 1..Len(g.powerUps) : positionsEqual(g.powerUps[i].position, pos)
    \/ \E i \in 1..Len(g.obstacles) : positionsEqual(g.obstacles[i].position, pos)

getAvailablePositions(g) ==
    LET n == g.config.gridSize
        cells == [i \in 1..(n * n) |-> CellAt(i, n)]
    IN  SelectSeq(cells, LAMBDA pos : ~occupied(g, pos))

-----------------------------------------------------------------------------
(* Collision resolver *)

\* Index of the first element of seq at pos, 0 if none.
FirstAt(seq, pos) ==
    LET hits == {i \in 1..Len(seq) : positionsEqual(pos, seq[i].position)}
    IN  IF hits = {} THEN 0 ELSE CHOOSE i \in hits : \A j \in hits : i <= j

\* Variant: the obstacles are scanned before the food and the power-ups.
checkCollisionObstaclesFirst(g, pos) ==
    IF ~isInBounds(pos, g.config.gridSize) THEN [type |-> "wall", data |-> 0]
    ELSE IF \E i \in 1..Len(g.snake.segments) : positionsEqual(pos, g.snake.segments[i])
         THEN [type |-> "self", data |-> 0]
    ELSE IF FirstAt(g.obstacles, pos) > 0
         THEN [type |-> "obstacle", data |-> FirstAt(g.obstacles, pos)]
    ELSE IF Len(g.food) > 0 /\ positionsEqual(pos, g.food[1].position)
         THEN [type |-> "food", data |-> 0]
    ELSE IF FirstAt(g.powerUps, pos) > 0
         THEN [type |-> "powerup", data |-> FirstAt(g.powerUps, pos)]
    ELSE [type |-> "none", data |-> 0]

checkCollision(g, pos) ==
    IF ~isInBounds(pos, g.config.gridSize) THEN [type |-> "wall", data |-> 0]
    ELSE IF \E i \in 1..Len(g.snake.segments) : positionsEqual(pos, g.snake.segments[i])
         THEN [type |-> "self", data |-> 0]
    ELSE IF Len(g.food) > 0 /\ positionsEqual(pos, g.food[1].position)
         THEN [type |-> "food", data |-> 0]
    ELSE IF FirstAt(g.powerUps, pos) > 0
         THEN [type |-> "powerup", data |-> FirstAt(g.powerUps, pos)]
    ELSE IF FirstAt(g.obstacles, pos) > 0
         THEN [type |-> "obstacle", data |-> FirstAt(g.obstacles, pos)]
    ELSE [type |-> "none", data |-> 0]

\* The % of JavaScript: the remainder has the sign of the dividend.
JsRem(a, n) == IF a >= 0 THEN a % n ELSE -((-a) % n)

\* Variant: the remainder alone, without the added gridSize.
wrapPositionRemainderOnly(g, pos) ==
    <<JsRem(pos[1], g.config.gridSize), JsRem(pos[2], g.config.gridSize)>>

wrapPosition(g, pos) ==
    LET n == g.config.gridSize
    IN  <<JsRem(JsRem(pos[1], n) + n, n), JsRem(JsRem(pos[2], n) + n, n)>>

-----------------------------------------------------------------------------
(* Spawner *)

\* Math.random() < percent / 100
RandBelow(g, percent) == Rand(g) * 100 < percent * RandModulus

spawnFood(g) ==
    LET availablePositions == getAvailablePositions(g)
        position == availablePositions[RandomIndex(g, Len(availablePositions)) + 1]
        g1 == Drawn(g)
        kind == IF RandBelow(g1, GoldenChance) THEN [type |-> "golden", value |-> GOLDEN_FOOD_SCORE]
                ELSE IF RandBelow(g1, BonusChance) THEN [type |-> "bonus", value |-> BONUS_FOOD_SCORE]
                ELSE [type |-> "normal", value |-> BASE_FOOD_SCORE]
        g2 == Drawn(g1)
    IN  IF Len(availablePositions) = 0 THEN g
        ELSE [g2 EXCEPT !.food = <<[position |-> position, type |-> kind.type,
                                    value |-> kind.value]>>]

\* Variant: the cap is checked with > in place of >=.
spawnPowerUpAboveCap(g) ==
    LET availablePositions == getAvailablePositions(g)
        position == availablePositions[RandomIndex(g, Len(availablePositions)) + 1]
        g1 == Drawn(g)
        type == PowerUpTypes[RandomIndex(g1, Len(PowerUpTypes)) + 1]
        g2 == Drawn(Drawn(g1))
    IN  IF Len(g.powerUps) > POWER_UP_MAX_COUNT THEN g
        ELSE IF Len(availablePositions) = 0 THEN g
        ELSE [g2 EXCEPT !.powerUps = Append(@, [type |-> type, position |-> position,
                                                 lifetime |-> POWER_UP_LIFETIME,
                                                 createdAt |-> g.now])]

\* The id drawn by generateId() is taken to be fresh; the draw is consumed.
spawnPowerUp(g) ==
    LET availablePositions == getAvailablePositions(g)
        position == availablePositions[RandomIndex(g, Len(availablePositions)) + 1]
        g1 == Drawn(g)
        type == PowerUpTypes[RandomIndex(g1, Len(PowerUpTypes)) + 1]
        g2 == Drawn(Drawn(g1))
    IN  IF Len(g.powerUps) >= POWER_UP_MAX_COUNT THEN g
        ELSE IF Len(availablePositions) = 0 THEN g
        ELSE [g2 EXCEPT !.powerUps = Append(@, [type |-> type, position |-> position,
                                                 lifetime |-> POWER_UP_LIFETIME,
                                                 createdAt |-> g.now])]

getRandomDirection(g) == DirectionList[RandomIndex(g, Len(DirectionList)) + 1]

\* One pass of the loop of generateObstacles, for a non-empty availablePositions.
addObstacle(g, availablePositions) ==
    LET position == availablePositions[RandomIndex(g, Len(availablePositions)) + 1]
        g1 == Drawn(g)
        isMoving == RandBelow(g1, OBSTACLE_CONFIG(g.config.mode).movingChance)
        g2 == Drawn(Drawn(g1))
        g3 == IF isMoving THEN Drawn(g2) ELSE g2
    IN  [g3 EXCEPT !.obstacles =
            Append(@, [position |-> position,
                       type |-> IF isMoving THEN "moving" ELSE "static",
                       movingDirection |-> IF isMoving THEN getRandomDirection(g2)
                                           ELSE <<0, 0>>])]

RECURSIVE obstacleLoop(_, _)
obstacleLoop(g, remaining) ==
    LET availablePositions == getAvailablePositions(g)
    IN  IF remaining = 0 \/ Len(availablePositions) = 0 THEN g
        ELSE obstacleLoop(addObstacle(g, availablePositions), remaining - 1)

generateObstacles(g) ==
    LET count == Min(OBSTACLE_CONFIG(g.config.mode).count + g.stats.level - 1, MAX_OBSTACLES)
    IN  obstacleLoop([g EXCEPT !.obstacles = <<>>], count)

-----------------------------------------------------------------------------
(* Scoring, levelling, effects *)

\* Variant: the level goes up by one, whatever the score.
levelUpByOne(g, newLevel) ==
    LET speedConfig == SPEED_CONFIG(g.config.difficulty)
        g1 == [g EXCEPT !.stats.level = @ + 1,
                        !.currentSpeed = Q * Max(speedConfig.initial
                                                   - g.stats.level * speedConfig.increment,
                                                 speedConfig.min)]
    IN  emitEvent(generateObstacles(g1),
                  [type |-> "LEVEL_UP", data |-> [level |-> g1.stats.level]])

levelUp(g, newLevel) ==
    LET speedConfig == SPEED_CONFIG(g.config.difficulty)
        g1 == [g EXCEPT !.stats.level = newLevel,
                        !.currentSpeed = Q * Max(speedConfig.initial
                                                   - (newLevel - 1) * speedConfig.increment,
                                                 speedConfig.min)]
    IN  emitEvent(generateObstacles(g1), [type |-> "LEVEL_UP", data |-> [level |-> newLevel]])

\* Variant: the power-up draw is made in every mode.
eatFoodAnyMode(g) ==
    LET combo == IF g.now - g.lastFoodTime < COMBO_TIME_WINDOW
                 THEN Min(g.stats.combo + 1, MAX_COMBO) ELSE 1
        points == calculateScore(g.food[1].value, combo, g.stats.level)
        g1 == [g EXCEPT !.stats.combo = combo,
                        !.lastFoodTime = g.now,
                        !.stats.score = @ + points,
                        !.stats.foodEaten = @ + 1]
        g2 == emitEvent(g1, [type |-> "FOOD_EATEN",
                             data |-> [position |-> g.food[1].position, points |-> points]])
        newLevel == calculateLevel(g2.stats.score, LEVEL_UP_THRESHOLD)
        g3 == IF newLevel > g2.stats.level THEN levelUp(g2, newLevel) ELSE g2
        g4 == spawnFood(g3)
    IN  IF Len(g.food) = 0 THEN g
        ELSE IF RandBelow(g4, POWER_UP_SPAWN_CHANCE)
             THEN spawnPowerUp([Drawn(g4) EXCEPT !.obs.powerUpTried = TRUE])
             ELSE Drawn(g4)

eatFood(g) ==
    LET combo == IF g.now - g.lastFoodTime < COMBO_TIME_WINDOW
                 THEN Min(g.stats.combo + 1, MAX_COMBO) ELSE 1
        points == calculateScore(g.food[1].value, combo, g.stats.level)
        g1 == [g EXCEPT !.stats.combo = combo,
                        !.lastFoodTime = g.now,
                        !.stats.score = @ + points,
                        !.stats.foodEaten = @ + 1]
        g2 == emitEvent(g1, [type |-> "FOOD_EATEN",
                             data |-> [position |-> g.food[1].position, points |-> points]])
        newLevel == calculateLevel(g2.stats.score, LEVEL_UP_THRESHOLD)
        g3 == IF newLevel > g2.stats.level THEN levelUp(g2, newLevel) ELSE g2
        g4 == spawnFood(g3)
    IN  IF Len(g.food) = 0 THEN g
        ELSE IF g4.config.mode = "arcade"
             THEN IF RandBelow(g4, POWER_UP_SPAWN_CHANCE)
                  THEN spawnPowerUp([Drawn(g4) EXCEPT !.obs.powerUpTried = TRUE])
                  ELSE Drawn(g4)
        ELSE g4

\* Variant: the filter keeps nothing.
RemoveEvery(seq, idx) == SubSeq(seq, 1, 0)

\* this.powerUps.filter(p => p.id !== powerUp.id), ids being distinct.
RemoveAt(seq, idx) == [i \in 1..(Len(seq) - 1) |-> IF i < idx THEN seq[i] ELSE seq[i + 1]]

\* Variant: Math.floor(n / 2)
FloorHalf(n) == n \div 2

\* Math.ceil(n / 2)
CeilHalf(n) == (n + 1) \div 2

\* Variant: an effect already active is kept, the new one being dropped.
collectPowerUpKeepsActive(g, idx) ==
    LET powerUp == g.powerUps[idx]
        g1 == [g EXCEPT !.stats.powerUpsCollected = @ + 1,
                        !.powerUps = RemoveAt(@, idx),
                        !.activePowerUp = IF Len(@) > 0 THEN @
                                          ELSE <<[type |-> powerUp.type,
                                                  duration |-> POWER_UP_DURATION,
                                                  startTime |-> g.now]>>]
        g2 == CASE powerUp.type = "double" -> [g1 EXCEPT !.stats.score = @ * 2]
                [] powerUp.type = "shrink" ->
                     IF Len(g1.snake.segments) > 3
                     THEN [g1 EXCEPT !.snake.segments =
                              SubSeq(@, 1, (Len(g1.snake.segments) + 1) \div 2)]
                     ELSE g1
                [] powerUp.type = "speed" ->
                     [g1 EXCEPT !.currentSpeed = Max(@ \div 2, Q * SpeedFloor)]
                [] powerUp.type = "slow" ->
                     [g1 EXCEPT !.currentSpeed = Min(@ * 2, Q * SlowCeiling)]
                [] OTHER -> g1
    IN  emitEvent(g2, [type |-> "POWER_UP_COLLECTED", data |-> [powerUp |-> powerUp]])

\* Variant: shrink halves a snake of any length.
collectPowerUpShrinksAny(g, idx) ==
    LET powerUp == g.powerUps[idx]
        g1 == [g EXCEPT !.stats.powerUpsCollected = @ + 1,
                        !.powerUps = RemoveAt(@, idx),
                        !.activePowerUp = <<[type |-> powerUp.type,
                                             duration |-> POWER_UP_DURATION,
                                             startTime |-> g.now]>>]
        g2 == CASE powerUp.type = "double" -> [g1 EXCEPT !.stats.score = @ * 2]
                [] powerUp.type = "shrink" ->
                     [g1 EXCEPT !.snake.segments =
                         SubSeq(@, 1, CeilHalf(Len(g1.snake.segments)))]
                [] powerUp.type = "speed" ->
                     [g1 EXCEPT !.currentSpeed = Max(@ \div 2, Q * SpeedFloor)]
                [] powerUp.type = "slow" ->
                     [g1 EXCEPT !.currentSpeed = Min(@ * 2, Q * SlowCeiling)]
                [] OTHER -> g1
    IN  emitEvent(g2, [type |-> "POWER_UP_COLLECTED", data |-> [powerUp |-> powerUp]])

collectPowerUp(g, idx) ==
    LET powerUp == g.powerUps[idx]
        g1 == [g EXCEPT !.stats.powerUpsCollected = @ + 1,
                        !.powerUps = RemoveAt(@, idx),
                        !.activePowerUp = <<[type |-> powerUp.type,
                                             duration |-> POWER_UP_DURATION,
                                             startTime |-> g.now]>>]
        g2 == CASE powerUp.type = "double" -> [g1 EXCEPT !.stats.score = @ * 2]
                [] powerUp.type = "shrink" ->
                     IF Len(g1.snake.segments) > 3
                     THEN [g1 EXCEPT !.snake.segments =
                              SubSeq(@, 1, CeilHalf(Len(g1.snake.segments)))]
                     ELSE g1
                [] powerUp.type = "speed" ->
                     [g1 EXCEPT !.currentSpeed = Max(@ \div 2, Q * SpeedFloor)]
                [] powerUp.type = "slow" ->
                     [g1 EXCEPT !.currentSpeed = Min(@ * 2, Q * SlowCeiling)]
                [] OTHER -> g1
    IN  emitEvent(g2, [type |-> "POWER_UP_COLLECTED", data |-> [powerUp |-> powerUp]])

\* Variant: the active effect is never deactivated.
updatePowerUpsKeepsEffect(g) ==
    [g EXCEPT !.powerUps = SelectSeq(@, LAMBDA p : g.now - p.createdAt < p.lifetime)]

updatePowerUps(g) ==
    LET g1 == [g EXCEPT !.powerUps = SelectSeq(@, LAMBDA p : g.now - p.createdAt < p.lifetime)]
        initial == Q * SPEED_CONFIG(g.config.difficulty).initial
    IN  IF Len(g1.activePowerUp) > 0
           /\ g1.now - g1.activePowerUp[1].startTime >= g1.activePowerUp[1].duration
        THEN [g1 EXCEPT !.currentSpeed =
                            IF g1.activePowerUp[1].type = "speed" THEN Min(@ * 2, initial)
                            ELSE IF g1.activePowerUp[1].type = "slow" THEN Max(@ \div 2, initial)
                            ELSE @,
                        !.activePowerUp = <<>>]
        ELSE g1

-----------------------------------------------------------------------------
(* Obstacle motion *)

Reversed(dir) == <<-dir[1], -dir[2]>>

\* Variant: no bounce off the walls.
moveObstacleNoBounce(g, obstacle) ==
    LET newPos == <<obstacle.position[1] + obstacle.movingDirection[1],
                    obstacle.position[2] + obstacle.movingDirection[2]>>
        occupiedBySnakeOrFood ==
            \/ \E i \in 1..Len(g.snake.segments) : positionsEqual(g.snake.segments[i], newPos)
            \/ (Len(g.food) > 0 /\ positionsEqual(g.food[1].position, newPos))
    IN  IF obstacle.type # "moving" THEN obstacle
        ELSE IF ~occupiedBySnakeOrFood THEN [obstacle EXCEPT !.position = newPos]
        ELSE [obstacle EXCEPT !.movingDirection = Reversed(@)]

\* Variant: the food is not looked at.
moveObstacleOverFood(g, obstacle) ==
    LET newPos == <<obstacle.position[1] + obstacle.movingDirection[1],
                    obstacle.position[2] + obstacle.movingDirection[2]>>
        occupiedBySnake ==
            \E i \in 1..Len(g.snake.segments) : positionsEqual(g.snake.segments[i], newPos)
    IN  IF obstacle.type # "moving" THEN obstacle
        ELSE IF ~isInBounds(newPos, g.config.gridSize)
             THEN [obstacle EXCEPT !.movingDirection = Reversed(@)]
        ELSE IF ~occupiedBySnake THEN [obstacle EXCEPT !.position = newPos]
        ELSE [obstacle EXCEPT !.movingDirection = Reversed(@)]

moveObstacle(g, obstacle) ==
    LET newPos == <<obstacle.position[1] + obstacle.movingDirection[1],
                    obstacle.position[2] + obstacle.movingDirection[2]>>
        occupiedBySnakeOrFood ==
            \/ \E i \in 1..Len(g.snake.segments) : positionsEqual(g.snake.segments[i], newPos)
            \/ (Len(g.food) > 0 /\ positionsEqual(g.food[1].position, newPos))
    IN  IF obstacle.type # "moving" THEN obstacle
        ELSE IF ~isInBounds(newPos, g.config.gridSize)
             THEN [obstacle EXCEPT !.movingDirection = Reversed(@)]
        ELSE IF ~occupiedBySnakeOrFood THEN [obstacle EXCEPT !.position = newPos]
        ELSE [obstacle EXCEPT !.movingDirection = Reversed(@)]

updateObstacles(g) ==
    [g EXCEPT !.obstacles = [i \in 1..Len(g.obstacles) |-> moveObstacle(g, g.obstacles[i])]]

-----------------------------------------------------------------------------
(* Death and reset *)

InitialSegments(gridSize) ==
    LET center == gridSize \div 2
    IN  [i \in 1..INITIAL_SNAKE_LENGTH |-> <<center - (i - 1), center>>]

\* Variant: the queued direction survives the respawn.
resetSnakePositionKeepsQueued(g) ==
    [g EXCEPT !.snake = [segments |-> InitialSegments(g.config.gridSize),
                         direction |-> RIGHT, nextDirection |-> @.nextDirection]]

resetSnakePosition(g) ==
    [g EXCEPT !.snake = [segments |-> InitialSegments(g.config.gridSize),
                         direction |-> RIGHT, nextDirection |-> RIGHT]]

gameOver(g) ==
    LET g1 == [g EXCEPT !.state = "gameover"]
    IN  emitEvent(g1, [type |-> "GAME_OVER", data |-> [stats |-> g1.stats]])

\* Variant: the game ends only below zero lives.
handleDeathBelowZero(g) ==
    LET g1 == [g EXCEPT !.stats.lives = @ - 1, !.obs.died = TRUE]
        g2 == emitEvent(g1, [type |-> "COLLISION", data |-> [collisionType |-> "death"]])
    IN  IF g2.stats.lives < 0 THEN gameOver(g2) ELSE resetSnakePosition(g2)

handleDeath(g) ==
    LET g1 == [g EXCEPT !.stats.lives = @ - 1, !.obs.died = TRUE]
        g2 == emitEvent(g1, [type |-> "COLLISION", data |-> [collisionType |-> "death"]])
    IN  IF g2.stats.lives <= 0 THEN gameOver(g2) ELSE resetSnakePosition(g2)

\* Variant: the level survives the reset.
resetKeepsLevel(g) ==
    [g EXCEPT !.snake = [segments |-> InitialSegments(g.config.gridSize),
                         direction |-> RIGHT, nextDirection |-> RIGHT],
              !.stats = [@ EXCEPT !.score = 0,
                                  !.lives = INITIAL_LIVES(g.config.difficulty),
                                  !.combo = 1, !.foodEaten = 0,
                                  !.powerUpsCollected = 0, !.timeElapsed = 0],
              !.food = <<>>,
              !.powerUps = <<>>,
              !.obstacles = <<>>,
              !.activePowerUp = <<>>,
              !.moveAccumulator = 0,
              !.lastFoodTime = g.now,
              !.currentSpeed = Q * SPEED_CONFIG(g.config.difficulty).initial,
              !.spatialGrid = {}]

reset(g) ==
    [g EXCEPT !.snake = [segments |-> InitialSegments(g.config.gridSize),
                         direction |-> RIGHT, nextDirection |-> RIGHT],
              !.stats = [@ EXCEPT !.score = 0, !.level = 1,
                                  !.lives = INITIAL_LIVES(g.config.difficulty),
                                  !.combo = 1, !.foodEaten = 0,
                                  !.powerUpsCollected = 0, !.timeElapsed = 0],
              !.food = <<>>,
              !.powerUps = <<>>,
              !.obstacles = <<>>,
              !.activePowerUp = <<>>,
              !.moveAccumulator = 0,
              !.lastFoodTime = g.now,
              !.currentSpeed = Q * SPEED_CONFIG(g.config.difficulty).initial,
              !.spatialGrid = {}]

-----------------------------------------------------------------------------
(* Spatial index *)

\* The grid after clear() and the inserts of updateSpatialGrid.  An entry is the
\* inserted id and its position: snake-<index>, food, powerup-<id>, obstacle-<id>;
\* a power-up stands for its own id, an obstacle's id is its place in the array.
updateSpatialGrid(g) ==
    [g EXCEPT !.spatialGrid =
        {[kind |-> "snake", key |-> i, position |-> g.snake.segments[i]] :
             i \in 1..Len(g.snake.segments)}
        \cup {[kind |-> "food", key |-> 0, position |-> g.food[i].position] :
             i \in 1..Len(g.food)}
        \cup {[kind |-> "powerup", key |-> g.powerUps[i].createdAt,
               position |-> g.powerUps[i].position] : i \in 1..Len(g.powerUps)}
        \cup {[kind |-> "obstacle", key |-> i, position |-> g.obstacles[i].position] :
             i \in 1..Len(g.obstacles)}]

-----------------------------------------------------------------------------
(* Tick driver *)

\* Variant: invincible also protects against walls.
lethalUnlessInvincible(collisionType, effect) ==
    \/ collisionType = "wall" /\ effect # "ghost" /\ effect # "invincible"
    \/ collisionType = "self" /\ effect # "invincible"
    \/ collisionType = "obstacle" /\ effect # "invincible" /\ effect # "ghost"

\* Variant: ghost also ignores the snake's own body.
lethalGhostThroughSelf(collisionType, effect) ==
    \/ collisionType = "wall" /\ effect # "ghost"
    \/ collisionType = "self" /\ effect # "invincible" /\ effect # "ghost"
    \/ collisionType = "obstacle" /\ effect # "invincible" /\ effect # "ghost"

\* The collisions that end in handleDeath, given the active effect.
lethal(collisionType, effect) ==
    \/ collisionType = "wall" /\ effect # "ghost"
    \/ collisionType = "self" /\ effect # "invincible"
    \/ collisionType = "obstacle" /\ effect # "invincible" /\ effect # "ghost"

updateGameLogic(g) ==
    LET g1 == [g EXCEPT !.snake.direction = g.snake.nextDirection]
        currentHead == g1.snake.segments[1]
        candidate == <<currentHead[1] + g1.snake.direction[1],
                       currentHead[2] + g1.snake.direction[2]>>
        collision == checkCollision(g1, candidate)
        effect == ActiveType(g1)
        g2 == [g1 EXCEPT !.obs = [stepped |-> TRUE, collision |-> collision.type,
                                  candidate |-> candidate, effect |-> effect,
                                  died |-> FALSE, applied |-> g1.snake.direction,
                                  powerUpTried |-> FALSE,
                                  delivered |-> g1.obs.delivered]]
        newHead == IF collision.type = "wall" THEN wrapPosition(g2, candidate) ELSE candidate
        g3 == [g2 EXCEPT !.snake.segments = <<newHead>> \o @]
        g4 == IF collision.type = "food" THEN eatFood(g3)
              ELSE [g3 EXCEPT !.snake.segments = SubSeq(@, 1, Len(@) - 1)]
    IN  IF lethal(collision.type, effect) THEN handleDeath(g2)
        ELSE IF collision.type = "powerup" /\ collision.data > 0
             THEN updateSpatialGrid(collectPowerUp(g4, collision.data))
        ELSE updateSpatialGrid(g4)

\* Variant: the excess over the move interval is carried over.
updateKeepsExcess(g, deltaTime) ==
    LET g1 == [g EXCEPT !.stats.timeElapsed = @ + deltaTime,
                        !.moveAccumulator = @ + deltaTime]
        g2 == IF g1.moveAccumulator >= g1.currentSpeed
              THEN updateGameLogic([g1 EXCEPT !.moveAccumulator = @ - g1.currentSpeed])
              ELSE g1
        g3 == updatePowerUps(g2)
        g4 == IF g3.frameCount % ObstacleCadence = 0 THEN updateObstacles(g3) ELSE g3
    IN  IF g.state # "playing" THEN g
        ELSE [g4 EXCEPT !.frameCount = @ + 1]

\* Variant: only Paused stops the tick.
updateUnlessPaused(g, deltaTime) ==
    LET g1 == [g EXCEPT !.stats.timeElapsed = @ + deltaTime,
                        !.moveAccumulator = @ + deltaTime]
        g2 == IF g1.moveAccumulator >= g1.currentSpeed
              THEN updateGameLogic([g1 EXCEPT !.moveAccumulator = 0])
              ELSE g1
        g3 == updatePowerUps(g2)
        g4 == IF g3.frameCount % ObstacleCadence = 0 THEN updateObstacles(g3) ELSE g3
    IN  IF g.state = "paused" THEN g
        ELSE [g4 EXCEPT !.frameCount = @ + 1]

update(g, deltaTime) ==
    LET g1 == [g EXCEPT !.stats.timeElapsed = @ + deltaTime,
                        !.moveAccumulator = @ + deltaTime]
        g2 == IF g1.moveAccumulator >= g1.currentSpeed
              THEN updateGameLogic([g1 EXCEPT !.moveAccumulator = 0])
              ELSE g1
        g3 == updatePowerUps(g2)
        g4 == IF g3.frameCount % ObstacleCadence = 0 THEN updateObstacles(g3) ELSE g3
    IN  IF g.state # "playing" THEN g
        ELSE [g4 EXCEPT !.frameCount = @ + 1]

init(g) == updateSpatialGrid(generateObstacles(spawnFood(reset(g))))

\* Variant: no reversal check.
changeDirectionUnchecked(g, direction) ==
    [g EXCEPT !.snake.nextDirection = direction]

\* Variant: the reversal check is made against the queued direction.
changeDirectionAgainstQueued(g, direction) ==
    IF ~areOppositeDirections(direction, g.snake.nextDirection)
    THEN [g EXCEPT !.snake.nextDirection = direction]
    ELSE g

\* Variant: input is taken only while Playing.
changeDirectionWhilePlaying(g, direction) ==
    IF g.state = "playing" /\ ~areOppositeDirections(direction, g.snake.direction)
    THEN [g EXCEPT !.snake.nextDirection = direction]
    ELSE g

changeDirection(g, direction) ==
    IF ~areOppositeDirections(direction, g.snake.direction)
    THEN [g EXCEPT !.snake.nextDirection = direction]
    ELSE g

setState(g, newState) == [g EXCEPT !.state = newState]

-----------------------------------------------------------------------------
(* The state machine *)

\* Inputs of the calls.
Seeds == 0..(RandModulus - 1)
DeltaTimes == {Q * 100}
ClockSteps == {5000}
Configs == {[gridSize |-> GridSize, difficulty |-> "hard", mode |-> "arcade"]}

\* The fields after a call, and what the call showed.
Fields(g, op, arg) ==
    /\ config' = g.config
    /\ state' = g.state
    /\ snake' = g.snake
    /\ food' = g.food
    /\ powerUps' = g.powerUps
    /\ obstacles' = g.obstacles
    /\ activePowerUp' = g.activePowerUp
    /\ stats' = g.stats
    /\ lastFoodTime' = g.lastFoodTime
    /\ moveAccumulator' = g.moveAccumulator
    /\ currentSpeed' = g.currentSpeed
    /\ frameCount' = g.frameCount
    /\ spatialGrid' = g.spatialGrid
    /\ eventCallbacks' = g.eventCallbacks
    /\ subscriptions' = IF op \in {"on", "unsubscribe"}
                        THEN Append(subscriptions, [op |-> op, eventType |-> arg[1],
                                                    callback |-> arg[2]])
                        ELSE subscriptions
    /\ events' = g.events
    /\ last' = [op |-> op, arg |-> arg, obs |-> g.obs]
    /\ hist' = [applied |-> IF g.obs.stepped THEN g.obs.applied ELSE hist.applied,
                queued |-> IF g.obs.stepped \/ op = "init" THEN <<>>
                           ELSE IF op = "changeDirection" /\ g.snake.nextDirection = arg
                                THEN (IF state = "paused" THEN <<arg>> ELSE <<>>)
                           ELSE hist.queued,
                consumed |-> IF g.obs.stepped THEN hist.queued ELSE hist.consumed,
                speedBefore |-> IF g.obs.stepped /\ g.obs.collision = "powerup"
                                THEN currentSpeed ELSE hist.speedBefore]

\* A call made with the wall clock where it was.
Commit(g, op, arg) ==
    /\ Fields(g, op, arg)
    /\ now' = now

\* new GameEngine(config)
Init ==
    /\ config \in Configs
    /\ state = "menu"
    /\ snake = [segments |-> InitialSegments(config.gridSize),
                direction |-> RIGHT, nextDirection |-> RIGHT]
    /\ food = <<>>
    /\ powerUps = <<>>
    /\ obstacles = <<>>
    /\ activePowerUp = <<>>
    /\ stats = [score |-> 0, level |-> 1, lives |-> INITIAL_LIVES(config.difficulty),
                combo |-> 1, foodEaten |-> 0, powerUpsCollected |-> 0,
                timeElapsed |-> 0, highScore |-> 0]
    /\ lastFoodTime = 0
    /\ moveAccumulator = 0
    /\ currentSpeed = Q * SPEED_CONFIG(config.difficulty).initial
    /\ frameCount = 0
    /\ spatialGrid = {}
    /\ now = 0
    /\ eventCallbacks = NoCallbacks
    /\ subscriptions = <<>>
    /\ events = <<>>
    /\ last = [op |-> "new", arg |-> <<>>, obs |-> This(0).obs]
    /\ hist = [applied |-> <<0, 0>>, queued |-> <<>>, consumed |-> <<>>,
               speedBefore |-> 0]

\* The caller's start-up (GameCanvas): init() right after construction, then
\* setState(PLAYING), then the frame loop and the key handler.
InitCall ==
    \E seed \in Seeds :
        /\ last.op = "new"
        /\ Commit(init(This(seed)), "init", <<>>)

StartCall ==
    /\ last.op = "init"
    /\ Commit(setState(This(0), "playing"), "setState", <<"playing">>)

UpdateCall ==
    \E deltaTime \in DeltaTimes, seed \in Seeds :
        /\ state = "playing" => frameCount < MaxFrames
        /\ Commit(update(This(seed), deltaTime), "update", <<deltaTime>>)

ChangeDirectionCall ==
    \E direction \in Directions :
        Commit(changeDirection(This(0), direction), "changeDirection", direction)

\* The wall clock advances between calls.
ClockTick ==
    \E d \in ClockSteps :
        /\ now + d <= MaxNow
        /\ now' = now + d
        /\ UNCHANGED <<engineVars, events, last, hist, subscriptions>>

Next == InitCall \/ StartCall \/ UpdateCall \/ ChangeDirectionCall \/ ClockTick

Spec == Init /\ [][Next]_vars

-----------------------------------------------------------------------------
(* The public methods called in any order *)

AnyInitCall ==
    \E seed \in Seeds :
        /\ frameCount < MaxFramesAny
        /\ Commit(init(This(seed)), "init", <<>>)

AnyUpdateCall ==
    \E deltaTime \in DeltaTimes, seed \in Seeds :
        /\ state = "playing" => frameCount < MaxFramesAny
        /\ Commit(update(This(seed), deltaTime), "update", <<deltaTime>>)

AnySetStateCall ==
    \E newState \in GameStates :
        Commit(setState(This(0), newState), "setState", <<newState>>)

NextAny == AnyInitCall \/ AnyUpdateCall \/ ChangeDirectionCall \/ AnySetStateCall \/ ClockTick

SpecAny == Init /\ [][NextAny]_vars

-----------------------------------------------------------------------------
(* checkCollision on its own: a board drawn from sample cells, shared cells
   included, and a probe position inside or outside the grid *)

SampleCells == {<<0, 0>>, <<1, 0>>}
SampleSnakes == {<<<<0, 0>>>>, <<<<1, 0>>, <<0, 0>>>>, <<<<1, 1>>, <<0, 1>>>>}
SampleFood == {<<>>} \cup {<<[position |-> c, type |-> "normal", value |-> BASE_FOOD_SCORE]>> :
                              c \in SampleCells}
SamplePowerUp(c, t) ==
    [type |-> t, position |-> c, lifetime |-> POWER_UP_LIFETIME, createdAt |-> 0]
SamplePowerUps ==
    {<<>>} \cup {<<SamplePowerUp(c, "ghost")>> : c \in SampleCells}
           \cup {<<SamplePowerUp(c, "ghost"), SamplePowerUp(c, "freeze")>> : c \in SampleCells}
SampleObstacles ==
    {<<>>} \cup {<<[position |-> c, type |-> "static", movingDirection |-> <<0, 0>>]>> :
                    c \in SampleCells}
ProbePositions ==
    SampleCells \cup {<<1, 1>>, <<-1, 0>>, <<0, -1>>, <<GridSize, 0>>, <<0, GridSize>>,
                      <<GridSize - 1, GridSize - 1>>}

InitCollision ==
    /\ config \in Configs
    /\ state = "playing"
    /\ \E segments \in SampleSnakes :
           snake = [segments |-> segments, direction |-> RIGHT, nextDirection |-> RIGHT]
    /\ food \in SampleFood
    /\ powerUps \in SamplePowerUps
    /\ obstacles \in SampleObstacles
    /\ activePowerUp = <<>>
    /\ stats = [score |-> 0, level |-> 1, lives |-> INITIAL_LIVES(config.difficulty),
                combo |-> 1, foodEaten |-> 0, powerUpsCollected |-> 0,
                timeElapsed |-> 0, highScore |-> 0]
    /\ lastFoodTime = 0
    /\ moveAccumulator = 0
    /\ currentSpeed = Q * SPEED_CONFIG(config.difficulty).initial
    /\ frameCount = 0
    /\ spatialGrid = {}
    /\ now = 0
    /\ eventCallbacks = NoCallbacks
    /\ subscriptions = <<>>
    /\ events = <<>>
    /\ last = [op |-> "new", arg |-> <<>>, obs |-> This(0).obs]
    /\ hist = [applied |-> <<0, 0>>, queued |-> <<>>, consumed |-> <<>>,
               speedBefore |-> 0]

CheckCollisionCall ==
    \E pos \in ProbePositions :
        LET result == checkCollision(This(0), pos)
        IN  /\ last' = [op |-> "checkCollision", arg |-> pos,
                        obs |-> [This(0).obs EXCEPT !.collision = result.type,
                                                    !.candidate = <<result.data, 0>>]]
            /\ UNCHANGED <<engineVars, now, events, hist, subscriptions>>

NextCollision == CheckCollisionCall

SpecCollision == InitCollision /\ [][NextCollision]_vars

-----------------------------------------------------------------------------
(* Play from boards of a game in progress: every difficulty, several levels
   and combos, a food or a power-up on the cell ahead of the head, the board
   sparse or crowded, an effect active or not *)

\* update calls explored from a board.
MaxFramesBoard == 2

BoardLevels == {1, 2, 4}
BoardCombos == {1, 8}
BoardFoods == {"normal", "bonus"}
BoardPickups == {"speed", "slow", "double", "shrink", "ghost"}
BoardActive == {"none", "ghost"}
BoardDeltaTimes == {Q * 16, Q * 100, Q * 1000}

\* A snake that has grown by two: the start strip and two more segments.
BoardSnake(gridSize) ==
    LET center == gridSize \div 2
    IN  InitialSegments(gridSize) \o <<<<center - 2, center - 1>>, <<center - 2, center - 2>>>>

BoardAheadCell(gridSize) == <<(gridSize \div 2) + 1, gridSize \div 2>>

\* The cells off the snake's row and off the snake, in scan order.
BoardSpare(gridSize) ==
    LET center == gridSize \div 2
    IN  SelectSeq([i \in 1..(gridSize * gridSize) |-> CellAt(i, gridSize)],
                  LAMBDA pos : /\ pos[2] # center
                               /\ pos \notin {<<center - 2, center - 1>>,
                                              <<center - 2, center - 2>>})

BoardPowerUp(type, pos) ==
    [type |-> type, position |-> pos, lifetime |-> POWER_UP_LIFETIME, createdAt |-> 0]

\* The food: ahead of the head, or on the last spare cell when a power-up is ahead.
BoardFood(gridSize, ahead) ==
    LET spare == BoardSpare(gridSize)
    IN  IF ahead = "bonus"
        THEN <<[position |-> BoardAheadCell(gridSize), type |-> "bonus",
                value |-> BONUS_FOOD_SCORE]>>
        ELSE <<[position |-> IF ahead = "normal" THEN BoardAheadCell(gridSize)
                             ELSE spare[Len(spare)],
                type |-> "normal", value |-> BASE_FOOD_SCORE]>>

\* The power-ups: the one ahead of the head, if any, and on a crowded board as
\* many more as the cap allows, on the last spare cells.
BoardPowerUps(gridSize, ahead, crowded) ==
    LET spare == BoardSpare(gridSize)
        first == IF ahead \in BoardPickups
                 THEN <<BoardPowerUp(ahead, BoardAheadCell(gridSize))>> ELSE <<>>
        taken == IF ahead \in BoardPickups THEN 1 ELSE 0
        more == IF crowded THEN POWER_UP_MAX_COUNT - taken ELSE 0
    IN  first \o [i \in 1..more |-> BoardPowerUp("freeze", spare[Len(spare) - taken - i + 1])]

\* The obstacles of the level, static, on the first spare cells left.
BoardObstacles(gridSize, level, ahead, crowded) ==
    LET spare == BoardSpare(gridSize)
        taken == IF ahead \in BoardPickups THEN 1 ELSE 0
        used == taken + (Len(BoardPowerUps(gridSize, ahead, crowded)) - taken)
        count == Min(Min(OBSTACLE_CONFIG("arcade").count + level - 1, MAX_OBSTACLES),
                     Len(spare) - used)
    IN  [i \in 1..count |-> [position |-> spare[i], type |-> "static",
                             movingDirection |-> <<0, 0>>]]

\* The move interval of a level (levelUp), level 1 being the difficulty's initial.
BoardSpeed(difficulty, level) ==
    LET speedConfig == SPEED_CONFIG(difficulty)
    IN  IF level = 1 THEN Q * speedConfig.initial
        ELSE Q * Max(speedConfig.initial - (level - 1) * speedConfig.increment,
                     speedConfig.min)

InitBoard ==
    \E difficulty \in Difficulties, level \in BoardLevels, combo \in BoardCombos,
       ahead \in BoardFoods \cup BoardPickups, crowded \in BOOLEAN, active \in BoardActive :
        /\ config = [gridSize |-> GridSize, difficulty |-> difficulty, mode |-> "arcade"]
        /\ state = "playing"
        /\ snake = [segments |-> BoardSnake(GridSize), direction |-> RIGHT,
                    nextDirection |-> RIGHT]
        /\ food = BoardFood(GridSize, ahead)
        /\ powerUps = BoardPowerUps(GridSize, ahead, crowded)
        /\ obstacles = BoardObstacles(GridSize, level, ahead, crowded)
        /\ activePowerUp = IF active = "none" THEN <<>>
                           ELSE <<[type |-> active, duration |-> POWER_UP_DURATION,
                                   startTime |-> 0]>>
        /\ stats = [score |-> (level - 1) * LEVEL_UP_THRESHOLD + 11, level |-> level,
                    lives |-> INITIAL_LIVES(difficulty), combo |-> combo,
                    foodEaten |-> Max(combo, 2),
                    powerUpsCollected |-> IF active = "none" THEN 0 ELSE 1,
                    timeElapsed |-> 0, highScore |-> 0]
        /\ lastFoodTime = 0
        /\ moveAccumulator = 0
        /\ currentSpeed = BoardSpeed(difficulty, level)
        /\ frameCount = 1
        /\ spatialGrid = updateSpatialGrid([snake |-> snake, food |-> food,
                                             powerUps |-> powerUps, obstacles |-> obstacles,
                                             spatialGrid |-> {}]).spatialGrid
        /\ now = 0
        /\ eventCallbacks = NoCallbacks
        /\ subscriptions = <<>>
        /\ events = <<>>
        /\ last = [op |-> "setState", arg |-> <<"playing">>, obs |-> This(0).obs]
        /\ hist = [applied |-> RIGHT, queued |-> <<>>, consumed |-> <<>>,
                   speedBefore |-> 0]

BoardUpdateCall ==
    \E deltaTime \in BoardDeltaTimes, seed \in Seeds :
        /\ state = "playing" => frameCount < 1 + MaxFramesBoard
        /\ Commit(update(This(seed), deltaTime), "update", <<deltaTime>>)

NextBoard == BoardUpdateCall \/ ClockTick

SpecBoard == InitBoard /\ [][NextBoard]_vars

-----------------------------------------------------------------------------
(* The spawners alone: spawnFood(), spawnPowerUp() and generateObstacles()
   called on the boards of a game in progress and on the boards one update()
   makes of them. *)

SpawnerInputs == {"setState", "update"}

\* A frame long enough for a logical step at every move interval.
SpawnDeltaTime == Q * 1000

SpawnUpdateCall ==
    \E seed \in Seeds :
        /\ last.op = "setState"
        /\ Commit(update(This(seed), SpawnDeltaTime), "update", <<SpawnDeltaTime>>)

SpawnFoodCall ==
    \E seed \in Seeds :
        /\ last.op \in SpawnerInputs
        /\ Commit(spawnFood(This(seed)), "spawnFood", <<>>)

SpawnPowerUpCall ==
    \E seed \in Seeds :
        /\ last.op \in SpawnerInputs
        /\ Commit(spawnPowerUp(This(seed)), "spawnPowerUp", <<>>)

GenerateObstaclesCall ==
    \E seed \in Seeds :
        /\ last.op \in SpawnerInputs
        /\ Commit(generateObstacles(This(seed)), "generateObstacles", <<>>)

NextSpawn == SpawnUpdateCall \/ SpawnFoodCall \/ SpawnPowerUpCall \/ GenerateObstaclesCall

SpecSpawn == InitBoard /\ [][NextSpawn]_vars

-----------------------------------------------------------------------------
(* The caller's start-up and frame loop at difficulty normal, without input:
   new GameEngine(config), init(), setState(PLAYING), update(100 ms). *)

ScenarioConfigs == {[gridSize |-> GridSize, difficulty |-> "normal", mode |-> "arcade"]}

InitScenario ==
    /\ config \in ScenarioConfigs
    /\ state = "menu"
    /\ snake = [segments |-> InitialSegments(config.gridSize),
                direction |-> RIGHT, nextDirection |-> RIGHT]
    /\ food = <<>>
    /\ powerUps = <<>>
    /\ obstacles = <<>>
    /\ activePowerUp = <<>>
    /\ stats = [score |-> 0, level |-> 1, lives |-> INITIAL_LIVES(config.difficulty),
                combo |-> 1, foodEaten |-> 0, powerUpsCollected |-> 0,
                timeElapsed |-> 0, highScore |-> 0]
    /\ lastFoodTime = 0
    /\ moveAccumulator = 0
    /\ currentSpeed = Q * SPEED_CONFIG(config.difficulty).initial
    /\ frameCount = 0
    /\ spatialGrid = {}
    /\ now = 0
    /\ eventCallbacks = NoCallbacks
    /\ subscriptions = <<>>
    /\ events = <<>>
    /\ last = [op |-> "new", arg |-> <<>>, obs |-> This(0).obs]
    /\ hist = [applied |-> <<0, 0>>, queued |-> <<>>, consumed |-> <<>>,
               speedBefore |-> 0]

NextScenario == InitCall \/ StartCall \/ UpdateCall \/ ClockTick

SpecScenario == InitScenario /\ [][NextScenario]_vars

-----------------------------------------------------------------------------
(* The getters, and a caller that writes into what a getter returned.  A
   spread, `{...object}` or `[...array]`, copies one level: the properties
   (or elements) of the result are the caller's own, the objects they refer
   to are still the engine's. *)

getSnake(g) == g.snake
getFood(g) == g.food
getPowerUps(g) == g.powerUps
getObstacles(g) == g.obstacles
getActivePowerUp(g) == g.activePowerUp
getStats(g) == g.stats
getConfig(g) == g.config

Getters == {"getSnake", "getFood", "getPowerUps", "getObstacles",
            "getActivePowerUp", "getStats", "getConfig"}

\* Levels of the returned value that are copies.
SpreadDepth == 1

\* Where the object a getter copies sits in the engine; food and
\* activePowerUp are null or one object.
EnginePath(getter) ==
    CASE getter = "getSnake" -> <<"snake">>
      [] getter = "getFood" -> <<"food", 1>>
      [] getter = "getPowerUps" -> <<"powerUps">>
      [] getter = "getObstacles" -> <<"obstacles">>
      [] getter = "getActivePowerUp" -> <<"activePowerUp", 1>>
      [] getter = "getStats" -> <<"stats">>
      [] getter = "getConfig" -> <<"config">>

\* What the getter hands out: null (the empty sequence) or the copy.
Returned(g, getter) ==
    CASE getter = "getSnake" -> <<getSnake(g)>>
      [] getter = "getFood" -> getFood(g)
      [] getter = "getPowerUps" -> <<getPowerUps(g)>>
      [] getter = "getObstacles" -> <<getObstacles(g)>>
      [] getter = "getActivePowerUp" -> getActivePowerUp(g)
      [] getter = "getStats" -> <<getStats(g)>>
      [] getter = "getConfig" -> <<getConfig(g)>>

RECURSIVE WriteAt(_, _, _)
WriteAt(object, path, value) ==
    IF path = <<>> THEN value
    ELSE [object EXCEPT ![Head(path)] = WriteAt(@, Tail(path), value)]

\* The caller assigns `value` at `path` of the value `getter` returned: a
\* write below the copied level lands in the engine's own object.
writeReturned(g, getter, path, value) ==
    IF Len(path) <= SpreadDepth THEN g
    ELSE WriteAt(g, EnginePath(getter) \o path, value)

\* The writes a caller tries: a property of the returned object itself, and
\* a property of an object it refers to (path elements: property names, and
\* 1-based indices; a position is <<x, y>>).
SnapshotWrites ==
    << [getter |-> "getSnake", path |-> <<"direction">>, value |-> UP, elements |-> 0],
       [getter |-> "getSnake", path |-> <<"segments", 1>>, value |-> <<0, 0>>, elements |-> 0],
       [getter |-> "getFood", path |-> <<"value">>, value |-> 0, elements |-> 0],
       [getter |-> "getFood", path |-> <<"position", 1>>, value |-> 0, elements |-> 0],
       [getter |-> "getPowerUps", path |-> <<1>>, value |-> <<>>, elements |-> 1],
       [getter |-> "getPowerUps", path |-> <<1, "position", 1>>, value |-> 0, elements |-> 1],
       [getter |-> "getObstacles", path |-> <<1>>, value |-> <<>>, elements |-> 1],
       [getter |-> "getObstacles", path |-> <<1, "position", 1>>, value |-> 0, elements |-> 1],
       [getter |-> "getActivePowerUp", path |-> <<"type">>, value |-> "ghost", elements |-> 0],
       [getter |-> "getStats", path |-> <<"score">>, value |-> 0, elements |-> 0],
       [getter |-> "getConfig", path |-> <<"gridSize">>, value |-> 0, elements |-> 0] >>

SnapshotWriteCall ==
    \E i \in 1..Len(SnapshotWrites) :
        LET w == SnapshotWrites[i]
            returned == Returned(This(0), w.getter)
        IN  /\ last.op \in SpawnerInputs
            /\ Len(returned) > 0
            /\ IF w.elements = 0 THEN TRUE ELSE Len(returned[1]) >= w.elements
            /\ Commit(writeReturned(This(0), w.getter, w.path, w.value),
                      w.getter, <<w.path, w.value>>)

NextSnapshot == SpawnUpdateCall \/ SnapshotWriteCall

SpecSnapshot == InitBoard /\ [][NextSnapshot]_vars

-----------------------------------------------------------------------------
(* Subscribers: the caller's start-up, then on() calls, calls of the handles
   on() returned, and the frame loop.  A callback records the event and
   returns. *)

Callbacks == {1, 2}
SubscribedTypes == {"FOOD_EATEN", "COLLISION"}
MaxSubscriptionCalls == 3

OnCall ==
    \E eventType \in SubscribedTypes, callback \in Callbacks :
        /\ last.op \notin {"new", "init"}
        /\ Len(subscriptions) < MaxSubscriptionCalls
        /\ Commit(on(This(0), eventType, callback), "on", <<eventType, callback>>)

\* Any handle returned so far may be called, any number of times.
UnsubscribeCall ==
    \E i \in 1..Len(subscriptions) :
        /\ subscriptions[i].op = "on"
        /\ Len(subscriptions) < MaxSubscriptionCalls
        /\ Commit(unsubscribe(This(0), subscriptions[i].eventType, subscriptions[i].callback),
                  "unsubscribe", <<subscriptions[i].eventType, subscriptions[i].callback>>)

NextEvents == InitCall \/ StartCall \/ OnCall \/ UnsubscribeCall \/ UpdateCall

SpecEvents == Init /\ [][NextEvents]_vars

-----------------------------------------------------------------------------
(* Restart: init() called on a game in progress (the boards, and what one
   update() and one setState() make of them). *)

RestartUpdateCall ==
    \E seed \in Seeds :
        /\ last.op = "setState"
        /\ frameCount < 2
        /\ Commit(update(This(seed), SpawnDeltaTime), "update", <<SpawnDeltaTime>>)

RestartSetStateCall ==
    \E newState \in GameStates :
        /\ last.op = "update"
        /\ Commit(setState(This(0), newState), "setState", <<newState>>)

RestartInitCall ==
    \E seed \in Seeds :
        /\ last.op \in {"setState", "update"}
        /\ Commit(init(This(seed)), "init", <<>>)

NextRestart == RestartUpdateCall \/ RestartSetStateCall \/ RestartInitCall

SpecRestart == InitBoard /\ [][NextRestart]_vars

-----------------------------------------------------------------------------
(* Pickups: a game in progress one frame before the obstacles' turn, with a
   power-up of any type on the cell ahead of the head, a second power-up, a
   moving obstacle, and the level low or high enough for the move interval to
   be at its minimum. *)

PickupLevels == {1, 8}
PickupSnakes == {3, 5}

PickupObstacles(gridSize, level, direction) ==
    LET spare == BoardSpare(gridSize)
        count == Min(Min(OBSTACLE_CONFIG("arcade").count + level - 1, MAX_OBSTACLES),
                     Len(spare) - 2)
    IN  [i \in 1..count |->
            IF i = 1 THEN [position |-> spare[1], type |-> "moving",
                           movingDirection |-> direction]
            ELSE [position |-> spare[i], type |-> "static", movingDirection |-> <<0, 0>>]]

InitPickup ==
    \E difficulty \in Difficulties, level \in PickupLevels, length \in PickupSnakes,
       t \in 1..Len(PowerUpTypes), direction \in Directions :
        LET spare == BoardSpare(GridSize)
        IN  /\ config = [gridSize |-> GridSize, difficulty |-> difficulty, mode |-> "arcade"]
            /\ state = "playing"
            /\ snake = [segments |-> SubSeq(BoardSnake(GridSize), 1, length),
                        direction |-> RIGHT, nextDirection |-> RIGHT]
            /\ food = <<[position |-> spare[Len(spare)], type |-> "normal",
                         value |-> BASE_FOOD_SCORE]>>
            /\ powerUps = <<BoardPowerUp(PowerUpTypes[t], BoardAheadCell(GridSize)),
                            BoardPowerUp("magnet", spare[Len(spare) - 1])>>
            /\ obstacles = PickupObstacles(GridSize, level, direction)
            /\ activePowerUp = <<>>
            /\ stats = [score |-> (level - 1) * LEVEL_UP_THRESHOLD + 11, level |-> level,
                        lives |-> INITIAL_LIVES(difficulty), combo |-> 1,
                        foodEaten |-> length - 1, powerUpsCollected |-> 0,
                        timeElapsed |-> 0, highScore |-> 0]
            /\ lastFoodTime = 0
            /\ moveAccumulator = 0
            /\ currentSpeed = BoardSpeed(difficulty, level)
            /\ frameCount = ObstacleCadence - 1
            /\ spatialGrid = updateSpatialGrid([snake |-> snake, food |-> food,
                                                 powerUps |-> powerUps,
                                                 obstacles |-> obstacles,
                                                 spatialGrid |-> {}]).spatialGrid
            /\ now = 0
            /\ eventCallbacks = NoCallbacks
            /\ subscriptions = <<>>
            /\ events = <<>>
            /\ last = [op |-> "setState", arg |-> <<"playing">>, obs |-> This(0).obs]
            /\ hist = [applied |-> RIGHT, queued |-> <<>>, consumed |-> <<>>,
                       speedBefore |-> 0]

\* Two frames: the pickup, then the obstacles' turn.
PickupUpdateCall ==
    \E seed \in Seeds :
        /\ state = "playing" => frameCount <= ObstacleCadence
        /\ Commit(update(This(seed), SpawnDeltaTime), "update", <<SpawnDeltaTime>>)

NextPickup == PickupUpdateCall \/ ClockTick

SpecPickup == InitPickup /\ [][NextPickup]_vars

-----------------------------------------------------------------------------
(* The other modes: the caller's start-up, frame loop and key handler with
   the mode classic, survival, challenge or multiplayer. *)

ModeConfigs ==
    {[gridSize |-> GridSize, difficulty |-> "normal", mode |-> mode] :
        mode \in GameModes \ {"arcade"}}

InitModes ==
    /\ config \in ModeConfigs
    /\ state = "menu"
    /\ snake = [segments |-> InitialSegments(config.gridSize),
                direction |-> RIGHT, nextDirection |-> RIGHT]
    /\ food = <<>>
    /\ powerUps = <<>>
    /\ obstacles = <<>>
    /\ activePowerUp = <<>>
    /\ stats = [score |-> 0, level |-> 1, lives |-> INITIAL_LIVES(config.difficulty),
                combo |-> 1, foodEaten |-> 0, powerUpsCollected |-> 0,
                timeElapsed |-> 0, highScore |-> 0]
    /\ lastFoodTime = 0
    /\ moveAccumulator = 0
    /\ currentSpeed = Q * SPEED_CONFIG(config.difficulty).initial
    /\ frameCount = 0
    /\ spatialGrid = {}
    /\ now = 0
    /\ eventCallbacks = NoCallbacks
    /\ subscriptions = <<>>
    /\ events = <<>>
    /\ last = [op |-> "new", arg |-> <<>>, obs |-> This(0).obs]
    /\ hist = [applied |-> <<0, 0>>, queued |-> <<>>, consumed |-> <<>>,
               speedBefore |-> 0]

NextModes == InitCall \/ StartCall \/ UpdateCall \/ ChangeDirectionCall

SpecModes == InitModes /\ [][NextModes]_vars

-----------------------------------------------------------------------------
(* Playing on: the caller's start-up, frame loop and key handler on the last
   life, with setState(PLAYING) called again after a game over, without
   init(). *)

LastLifeConfigs == {[gridSize |-> GridSize, difficulty |-> "insane", mode |-> "arcade"]}

InitLastLife ==
    /\ config \in LastLifeConfigs
    /\ state = "menu"
    /\ snake = [segments |-> InitialSegments(config.gridSize),
                direction |-> RIGHT, nextDirection |-> RIGHT]
    /\ food = <<>>
    /\ powerUps = <<>>
    /\ obstacles = <<>>
    /\ activePowerUp = <<>>
    /\ stats = [score |-> 0, level |-> 1, lives |-> INITIAL_LIVES(config.difficulty),
                combo |-> 1, foodEaten |-> 0, powerUpsCollected |-> 0,
                timeElapsed |-> 0, highScore |-> 0]
    /\ lastFoodTime = 0
    /\ moveAccumulator = 0
    /\ currentSpeed = Q * SPEED_CONFIG(config.difficulty).initial
    /\ frameCount = 0
    /\ spatialGrid = {}
    /\ now = 0
    /\ eventCallbacks = NoCallbacks
    /\ subscriptions = <<>>
    /\ events = <<>>
    /\ last = [op |-> "new", arg |-> <<>>, obs |-> This(0).obs]
    /\ hist = [applied |-> <<0, 0>>, queued |-> <<>>, consumed |-> <<>>,
               speedBefore |-> 0]

PlayOnCall ==
    /\ state = "gameover"
    /\ Commit(setState(This(0), "playing"), "setState", <<"playing">>)

NextLastLife == InitCall \/ StartCall \/ UpdateCall \/ ChangeDirectionCall \/ PlayOnCall

SpecLastLife == InitLastLife /\ [][NextLastLife]_vars

-----------------------------------------------------------------------------
(* Vocabulary of the properties *)

SnakeHead == snake.segments[1]
SegmentCells == {snake.segments[i] : i \in 1..Len(snake.segments)}
FoodCells == {food[i].position : i \in 1..Len(food)}
PowerUpCells == {powerUps[i].position : i \in 1..Len(powerUps)}
ObstacleCells == {obstacles[i].position : i \in 1..Len(obstacles)}
Effect == IF activePowerUp = <<>> THEN "none" ELSE activePowerUp[1].type

\* A sequence of entities with pairwise distinct cells.
DistinctCells(seq) ==
    \A i, j \in 1..Len(seq) : i # j => seq[i].position # seq[j].position

\* The cell the next logical step aims at, and the cell it is on the torus.
Candidate == <<SnakeHead[1] + snake.nextDirection[1], SnakeHead[2] + snake.nextDirection[2]>>
OnTorus(pos) == <<pos[1] % config.gridSize, pos[2] % config.gridSize>>
InGrid(pos) ==
    /\ 0 <= pos[1] /\ pos[1] < config.gridSize
    /\ 0 <= pos[2] /\ pos[2] < config.gridSize

\* The class of a position by the priority wall, self, food, power-up, obstacle.
ClassOf(pos) ==
    CASE ~InGrid(pos) -> "wall"
      [] InGrid(pos) /\ pos \in SegmentCells -> "self"
      [] InGrid(pos) /\ pos \notin SegmentCells /\ pos \in FoodCells -> "food"
      [] InGrid(pos) /\ pos \notin SegmentCells \cup FoodCells /\ pos \in PowerUpCells
            -> "powerup"
      [] InGrid(pos) /\ pos \notin SegmentCells \cup FoodCells \cup PowerUpCells
            /\ pos \in ObstacleCells -> "obstacle"
      [] OTHER -> "none"

\* This transition is a call of the given method (the clock stands still
\* during a call), and an update() that ran one logical step.
Called(op) == now' = now /\ last'.op = op
StepTaken == Called("update") /\ last'.obs.stepped

\* The types of the power-ups this transition's call has collected.
CollectedTypes ==
    {events'[i].data.powerUp.type :
        i \in {j \in 1..Len(events') : events'[j].type = "POWER_UP_COLLECTED"}}

\* The cells of the grid, and those no entity of the current state is on.
GridCells == (0..(config.gridSize - 1)) \X (0..(config.gridSize - 1))
FreeCells == GridCells \ (SegmentCells \cup FoodCells \cup PowerUpCells \cup ObstacleCells)

\* The events of this transition's call hold none of the given types.
NoEventOf(types) == \A i \in 1..Len(events') : events'[i].type \notin types
SomeEventOf(types) == \E i \in 1..Len(events') : events'[i].type \in types

-----------------------------------------------------------------------------
(* C1 *)

\* C1: no cell holds more than one live entity: the snake's segments are
\* pairwise distinct, the power-ups are pairwise distinct, the obstacles are
\* pairwise distinct, and no two of snake, food, power-ups and obstacles share
\* a cell, after init() and after every update().
C1_NoSharedCell ==
    /\ \A i, j \in 1..Len(snake.segments) : i # j => snake.segments[i] # snake.segments[j]
    /\ DistinctCells(powerUps)
    /\ DistinctCells(obstacles)
    /\ SegmentCells \cap FoodCells = {}
    /\ SegmentCells \cap PowerUpCells = {}
    /\ SegmentCells \cap ObstacleCells = {}
    /\ FoodCells \cap PowerUpCells = {}
    /\ FoodCells \cap ObstacleCells = {}
    /\ PowerUpCells \cap ObstacleCells = {}

-----------------------------------------------------------------------------
(* C2 *)

\* C2: checkCollision(pos) returns the first class that applies in the order
\* wall, self, food, power-up, obstacle, and none when no class applies, also
\* when several entities share the cell.
C2_FirstApplicableClass ==
    last.op = "checkCollision" => last.obs.collision = ClassOf(last.arg)

\* A probe of a cell that holds a segment, the food, a power-up and an obstacle.
C2_SharedCellProbed ==
    /\ last.op = "checkCollision"
    /\ last.arg \in SegmentCells \cap FoodCells \cap PowerUpCells \cap ObstacleCells
    /\ last.obs.collision = "self"

\* A probe of a cell that holds the food and an obstacle and no segment.
C2_FoodBeforeObstacle ==
    /\ last.op = "checkCollision"
    /\ last.arg \in (FoodCells \cap ObstacleCells) \ SegmentCells
    /\ last.obs.collision = "food"

-----------------------------------------------------------------------------
(* C3 *)

\* The candidate cell's class and the active effect make the step a death.
DeathCase ==
    \/ ClassOf(Candidate) = "wall" /\ Effect # "ghost"
    \/ ClassOf(Candidate) = "self" /\ Effect # "invincible"
    \/ ClassOf(Candidate) = "obstacle" /\ Effect \notin {"invincible", "ghost"}

-----------------------------------------------------------------------------
(* C4 *)

\* C4: with ghost active, a step whose candidate cell is outside the grid puts
\* the new head at the candidate's coordinates modulo gridSize (gridSize becomes
\* 0, -1 becomes gridSize - 1), loses no life and emits neither COLLISION nor
\* GAME_OVER.
C4_GhostWraps ==
    [][StepTaken /\ Effect = "ghost" /\ ~InGrid(Candidate) =>
          /\ snake'.segments[1] = OnTorus(Candidate)
          /\ Candidate[1] = config.gridSize => snake'.segments[1][1] = 0
          /\ Candidate[2] = config.gridSize => snake'.segments[1][2] = 0
          /\ Candidate[1] = -1 => snake'.segments[1][1] = config.gridSize - 1
          /\ Candidate[2] = -1 => snake'.segments[1][2] = config.gridSize - 1
          /\ stats'.lives = stats.lives
          /\ NoEventOf({"COLLISION", "GAME_OVER"})
      ]_vars

\* A ghost step through the low wall has put the head on the far side.
C4_WrappedFromBelowZero ==
    /\ last.op = "update" /\ last.obs.stepped
    /\ last.obs.effect = "ghost" /\ last.obs.collision = "wall"
    /\ -1 \in {last.obs.candidate[1], last.obs.candidate[2]}
    /\ config.gridSize - 1 \in {snake.segments[1][1], snake.segments[1][2]}
    /\ ~last.obs.died

-----------------------------------------------------------------------------
(* C5 *)

\* C5 as stated: with ghost active, a step whose candidate cell is in the grid
\* and holds a segment of the snake is no death: no life is lost and no
\* COLLISION is emitted.
C5_GhostIgnoresSelf ==
    [][StepTaken /\ Effect = "ghost" /\ InGrid(Candidate) /\ Candidate \in SegmentCells =>
          /\ stats'.lives = stats.lives
          /\ NoEventOf({"COLLISION"})
      ]_vars

\* C5 amended: a step whose candidate cell is in the grid and holds a segment
\* of the snake is ignored only with invincible active; with ghost active, as
\* with any other effect or none, it is a death: one life is lost and COLLISION
\* is emitted.
C5_OnlyInvincibleIgnoresSelf ==
    [][StepTaken /\ InGrid(Candidate) /\ Candidate \in SegmentCells =>
          IF Effect = "invincible"
          THEN stats'.lives = stats.lives /\ NoEventOf({"COLLISION"})
          ELSE stats'.lives = stats.lives - 1 /\ SomeEventOf({"COLLISION"})
      ]_vars

\* A step onto the snake's own body with ghost active has been a death.
C5_GhostDiesOnSelf ==
    /\ last.op = "update" /\ last.obs.stepped
    /\ last.obs.effect = "ghost" /\ last.obs.collision = "self"
    /\ last.obs.died

-----------------------------------------------------------------------------
(* C6 *)

\* C6: every stored position (each segment, the food, each power-up, each
\* obstacle) has both coordinates in 0..gridSize-1.
C6_PositionsInBounds ==
    \A pos \in SegmentCells \cup FoodCells \cup PowerUpCells \cup ObstacleCells : InGrid(pos)

\* A ghost step has wrapped the head onto the far border while the board holds
\* the food and a moving obstacle next to a wall.
C6_WrappedOnFullBoard ==
    /\ last.op = "update" /\ last.obs.stepped
    /\ last.obs.collision = "wall" /\ ~last.obs.died
    /\ ~InGrid(last.obs.candidate)
    /\ snake.segments[1] # last.obs.candidate
    /\ Len(food) > 0
    /\ \E i \in 1..Len(obstacles) :
           /\ obstacles[i].type = "moving"
           /\ \E dir \in Directions :
                  ~InGrid(<<obstacles[i].position[1] + dir[1],
                            obstacles[i].position[2] + dir[2]>>)

-----------------------------------------------------------------------------
(* C7 *)

\* C7 as stated: the direction a logical step applies is never the exact
\* opposite of the direction the previous logical step applied, and the step
\* never aims at the snake's neck.
C7_NeverOppositeOfPreviousStep ==
    [][StepTaken =>
          /\ ~areOppositeDirections(last'.obs.applied, hist.applied)
          /\ Candidate # snake.segments[2]
      ]_vars

\* C7 amended: the direction a logical step applies is never the exact
\* opposite of snake.direction as it stood before the step, which is the
\* direction the previous step applied, or RIGHT when init() or a respawn has
\* reset the snake since; the step never aims at the snake's neck. After a
\* respawn the applied direction can be the opposite of the one the fatal step
\* applied.
C7_NeverOppositeOfCurrent ==
    [][StepTaken =>
          /\ last'.obs.applied = snake.nextDirection
          /\ ~areOppositeDirections(last'.obs.applied, snake.direction)
          /\ snake.direction \in {hist.applied, RIGHT}
          /\ Candidate # snake.segments[2]
          /\ OnTorus(Candidate) # snake.segments[2]
      ]_vars

\* A step has turned away from the direction of the step before it.
C7_TurnApplied ==
    /\ last.op = "update" /\ last.obs.stepped
    /\ hist.applied = LEFT
    /\ Len(snake.segments) >= 3
    /\ snake.segments[2] = <<snake.segments[1][1] + 1, snake.segments[1][2]>>
    /\ snake.segments[3] # <<snake.segments[2][1] + 1, snake.segments[2][2]>>

-----------------------------------------------------------------------------
(* C8 *)

\* C8: changeDirection(d) with d the exact opposite of snake.direction changes
\* nothing; any other d sets nextDirection to d and changes nothing else. The
\* check is made against snake.direction, not against a queued nextDirection.
C8_ChangeDirection ==
    [][Called("changeDirection") =>
          /\ snake'.direction = snake.direction
          /\ snake'.segments = snake.segments
          /\ snake'.nextDirection =
                 IF last'.arg = <<-snake.direction[1], -snake.direction[2]>>
                 THEN snake.nextDirection
                 ELSE last'.arg
          /\ UNCHANGED <<config, state, food, powerUps, obstacles, activePowerUp, stats,
                         lastFoodTime, moveAccumulator, currentSpeed, frameCount,
                         spatialGrid>>
          /\ events' = <<>>
      ]_vars

\* A reversal has been refused while another direction stays queued.
C8_ReversalRefused ==
    /\ last.op = "changeDirection"
    /\ last.arg = <<-snake.direction[1], -snake.direction[2]>>
    /\ snake.nextDirection # snake.direction
    /\ snake.nextDirection # last.arg

\* The opposite of the queued direction has been accepted.
C8_OppositeOfQueuedAccepted ==
    /\ last.op = "changeDirection"
    /\ snake.nextDirection = last.arg
    /\ hist.applied # <<0, 0>>
    /\ last.arg # snake.direction

-----------------------------------------------------------------------------
(* C9 *)

\* C9: update() in Menu, Paused, GameOver or Loading leaves every field of the
\* engine as it was (timeElapsed, the move accumulator, frameCount, the
\* power-ups and the obstacles included) and emits no event.
C9_UpdateOutsidePlaying ==
    [][Called("update") /\ state # "playing" =>
          /\ UNCHANGED engineVars
          /\ events' = <<>>
          /\ ~last'.obs.stepped
      ]_vars

\* update() has been called in Loading on a board that holds a moving obstacle
\* and the food.
C9_UpdatedWhileLoading ==
    /\ last.op = "update"
    /\ state = "loading"
    /\ Len(food) > 0
    /\ \E i \in 1..Len(obstacles) : obstacles[i].type = "moving"

-----------------------------------------------------------------------------
(* C10 *)

\* While Paused, a changeDirection(d) that is no reversal is taken and moves
\* nothing.
PausedInputTaken ==
    Called("changeDirection") /\ state = "paused"
        /\ ~areOppositeDirections(last'.arg, snake.direction)
    => /\ snake'.nextDirection = last'.arg
       /\ snake'.segments = snake.segments
       /\ state' = "paused"

\* C10 as stated: while Paused a changeDirection(d) that is no reversal is
\* taken without moving the snake, and the first logical step after the return
\* to Playing moves the head to its cell plus the last d so queued.
C10_QueuedTurnMovesHead ==
    [][/\ PausedInputTaken
       /\ StepTaken /\ hist.queued # <<>> =>
              snake'.segments[1] = OnTorus(<<SnakeHead[1] + hist.queued[1][1],
                                             SnakeHead[2] + hist.queued[1][2]>>)
      ]_vars

\* C10 amended: while Paused a changeDirection(d) that is no reversal is taken
\* without moving the snake, and the first logical step after the return to
\* Playing is made in the last d so queued: it applies d and aims at the head's
\* cell plus d. The head moves there (wrapped under ghost) unless that step is
\* a death, in which case the snake respawns or stays in place.
C10_QueuedTurnApplied ==
    [][/\ PausedInputTaken
       /\ StepTaken /\ hist.queued # <<>> =>
              /\ last'.obs.applied = hist.queued[1]
              /\ snake'.direction \in {hist.queued[1], RIGHT}
              /\ last'.obs.candidate = <<SnakeHead[1] + hist.queued[1][1],
                                         SnakeHead[2] + hist.queued[1][2]>>
              /\ ~last'.obs.died => /\ snake'.segments[1] = OnTorus(last'.obs.candidate)
                                    /\ snake'.direction = hist.queued[1]
      ]_vars

\* The step after a pause has moved the head in the direction queued while
\* Paused, a turn away from the direction before the pause.
C10_QueuedTurnConsumed ==
    /\ last.op = "update" /\ last.obs.stepped /\ ~last.obs.died
    /\ hist.consumed # <<>>
    /\ hist.consumed[1] = last.obs.applied
    /\ hist.consumed[1] # RIGHT
    /\ snake.segments[1] = last.obs.candidate

-----------------------------------------------------------------------------
(* C11 *)

\* C11: in Playing, update(deltaTime) takes a logical step exactly when the
\* accumulator plus deltaTime reaches the move interval; it takes one step at
\* most (a surviving head moves one cell, at most one life is lost) however
\* large deltaTime is; after a step the accumulator is 0, the excess being
\* discarded; without a step the accumulator grows by deltaTime and the snake
\* stays where it is.
C11_FixedTimestep ==
    [][Called("update") /\ state = "playing" =>
          LET deltaTime == last'.arg[1]
          IN  /\ last'.obs.stepped <=> moveAccumulator + deltaTime >= currentSpeed
              /\ last'.obs.stepped =>
                     /\ moveAccumulator' = 0
                     /\ stats'.lives >= stats.lives - 1
                     /\ ~last'.obs.died => snake'.segments[1] = OnTorus(Candidate)
              /\ ~last'.obs.stepped =>
                     /\ moveAccumulator' = moveAccumulator + deltaTime
                     /\ snake' = snake
                     /\ stats'.lives = stats.lives
      ]_vars

\* A step has been taken on a deltaTime shorter than the move interval, the
\* time of an earlier call having been accumulated.
C11_SteppedOnAccumulatedTime ==
    /\ last.op = "update" /\ last.obs.stepped /\ ~last.obs.died
    /\ last.arg[1] < currentSpeed
    /\ last.obs.collision = "food"
    /\ moveAccumulator = 0

-----------------------------------------------------------------------------
(* C12 *)

\* C12: a death that leaves lives takes exactly one life, puts the snake on
\* the strip (c,c),(c-1,c),(c-2,c), c = floor(gridSize / 2), facing right with
\* right queued, keeps the state Playing and leaves the food, the score, the
\* level, foodEaten and powerUpsCollected as they were; the power-ups and the
\* obstacles are left as they were too, but for the expiry and the obstacle
\* motion the same update() call runs after the death.
C12_RespawnInPlace ==
    [][StepTaken /\ last'.obs.died /\ stats.lives > 1 =>
          LET c == config.gridSize \div 2
          IN  /\ stats'.lives = stats.lives - 1
              /\ snake' = [segments |-> <<<<c, c>>, <<c - 1, c>>, <<c - 2, c>>>>,
                           direction |-> <<1, 0>>, nextDirection |-> <<1, 0>>]
              /\ state' = "playing"
              /\ food' = food
              /\ stats'.score = stats.score /\ stats'.level = stats.level
              /\ stats'.foodEaten = stats.foodEaten
              /\ stats'.powerUpsCollected = stats.powerUpsCollected
              /\ powerUps' = SelectSeq(powerUps, LAMBDA p : now - p.createdAt < p.lifetime)
              /\ Len(obstacles') = Len(obstacles)
              /\ frameCount % ObstacleCadence # 0 => obstacles' = obstacles
              /\ \A i \in 1..Len(obstacles) :
                     \/ obstacles'[i] = obstacles[i]
                     \/ /\ obstacles[i].type = "moving"
                        /\ \/ obstacles'[i] =
                                  [obstacles[i] EXCEPT
                                      !.position = <<@[1] + obstacles[i].movingDirection[1],
                                                     @[2] + obstacles[i].movingDirection[2]>>]
                           \/ obstacles'[i] =
                                  [obstacles[i] EXCEPT !.movingDirection = <<-@[1], -@[2]>>]
      ]_vars

\* A snake that had turned and had a live power-up on the board has died with
\* a life left, on a frame without obstacle motion.
C12_RespawnedAfterTurn ==
    /\ last.op = "update" /\ last.obs.stepped /\ last.obs.died
    /\ state = "playing"
    /\ last.obs.applied # RIGHT
    /\ Len(powerUps) > 0
    /\ stats.foodEaten > 0
    /\ (frameCount - 1) % ObstacleCadence # 0

-----------------------------------------------------------------------------
(* C13 *)

\* C13: a death that takes the last life makes the state GameOver within the
\* same update() call and emits GAME_OVER exactly once, with the stats of that
\* moment: lives 0 and the score, level and foodEaten the engine had at the
\* death and still has after the call; from then on update() changes nothing.
C13_GameOverIsTerminal ==
    [][/\ StepTaken /\ last'.obs.died /\ stats.lives = 1 =>
              /\ state' = "gameover"
              /\ stats'.lives = 0
              /\ stats'.score = stats.score /\ stats'.level = stats.level
              /\ stats'.foodEaten = stats.foodEaten
              /\ \E i \in 1..Len(events') :
                     /\ events'[i].type = "GAME_OVER"
                     /\ events'[i].data.stats = stats'
                     /\ \A j \in 1..Len(events') : events'[j].type = "GAME_OVER" => j = i
       /\ Called("update") /\ state = "gameover" =>
              /\ UNCHANGED engineVars
              /\ events' = <<>>
      ]_vars

\* update() has been called after the game ended with a score.
C13_UpdatedAfterGameOver ==
    /\ last.op = "update" /\ ~last.obs.stepped
    /\ state = "gameover"
    /\ stats.lives = 0
    /\ stats.score > 0

-----------------------------------------------------------------------------
(* C14 *)

\* C14 as amended: init() leaves three segments; a step that eats food adds
\* exactly one segment; a death with lives left puts the count back to three
\* whatever it was; picking up shrink with more than three segments cuts the
\* count to ceiling(count / 2); every other call, step, wrap and pickup leaves
\* the count as it was.  The count is 3 + foodEaten only as long as neither a
\* respawn nor a shrink has happened since init().
C14_LengthPerStep ==
    [][/\ Called("init") => Len(snake'.segments) = INITIAL_SNAKE_LENGTH
       /\ Called("update") =>
              Len(snake'.segments) =
                  CASE ~last'.obs.stepped -> Len(snake.segments)
                    [] last'.obs.stepped /\ last'.obs.died ->
                           IF state' = "playing" THEN INITIAL_SNAKE_LENGTH
                           ELSE Len(snake.segments)
                    [] last'.obs.stepped /\ ~last'.obs.died /\ last'.obs.collision = "food" ->
                           Len(snake.segments) + 1
                    [] last'.obs.stepped /\ ~last'.obs.died /\ last'.obs.collision # "food"
                          /\ "shrink" \in CollectedTypes /\ Len(snake.segments) > 3 ->
                           (Len(snake.segments) + 1) \div 2
                    [] OTHER -> Len(snake.segments)
       /\ Called("update") /\ last'.obs.stepped /\ last'.obs.collision = "food" =>
              stats'.foodEaten = stats.foodEaten + 1
       /\ Called("update") /\ ~(last'.obs.stepped /\ last'.obs.collision = "food") =>
              stats'.foodEaten = stats.foodEaten
       /\ Called("changeDirection") \/ Called("setState") => snake'.segments = snake.segments
      ]_vars

\* A snake of five segments has picked up shrink and is three segments long,
\* with more than one pickup behind it.
C14_ShrunkToThree ==
    /\ last.op = "update" /\ last.obs.stepped /\ last.obs.collision = "powerup"
    /\ Effect = "shrink"
    /\ stats.foodEaten > 1
    /\ Len(snake.segments) = 3

\* C14 as stated: the segment count is 3 + foodEaten, and no event changes
\* that relation: the count less the pickups is the same before and after
\* every call.
C14_LengthIsThreePlusPickups ==
    [][Called("update") =>
          Len(snake'.segments) - stats'.foodEaten = Len(snake.segments) - stats.foodEaten
      ]_vars

-----------------------------------------------------------------------------
(* C15 *)

\* C15: at most one effect is active; an update() that picks up a power-up of
\* type T (double and shrink included) ends with T as the active effect,
\* started at the time of the pickup with the full POWER_UP_DURATION, whether
\* or not another effect was active; the pickup is counted and the power-up
\* taken off the board; and an active effect stays until its duration has
\* passed or another pickup replaces it.
C15_PickupReplacesActive ==
    [][/\ Len(activePowerUp') <= 1
       /\ Called("update") /\ CollectedTypes # {} =>
              /\ last'.obs.stepped /\ last'.obs.collision = "powerup"
              /\ \E i \in 1..Len(powerUps) :
                     /\ powerUps[i].position = Candidate
                     /\ CollectedTypes = {powerUps[i].type}
                     /\ activePowerUp' = <<[type |-> powerUps[i].type,
                                            duration |-> POWER_UP_DURATION,
                                            startTime |-> now]>>
                     /\ Candidate \notin {powerUps'[j].position : j \in 1..Len(powerUps')}
              /\ stats'.powerUpsCollected = stats.powerUpsCollected + 1
       /\ Called("update") /\ last'.obs.stepped /\ last'.obs.collision = "powerup" =>
              CollectedTypes # {}
       /\ Called("update") /\ CollectedTypes = {} /\ activePowerUp # <<>> =>
              activePowerUp' =
                  IF state = "playing"
                     /\ now - activePowerUp[1].startTime >= activePowerUp[1].duration
                  THEN <<>> ELSE activePowerUp
      ]_vars

\* Double points has been picked up while ghost was active, at a time when
\* the ghost effect was about to expire: double is the effect now, from now.
C15_DoubleOverGhost ==
    /\ last.op = "update" /\ last.obs.stepped /\ last.obs.collision = "powerup"
    /\ last.obs.effect = "ghost"
    /\ activePowerUp # <<>>
    /\ activePowerUp[1].type = "double"
    /\ activePowerUp[1].startTime = now
    /\ now = MaxNow

-----------------------------------------------------------------------------
(* C16 *)

\* C16: when a speed or slow effect expires, the active effect becomes null
\* and the move interval is again the interval that was in force immediately
\* before the pickup of that effect.
C16_ExpiryRestoresInterval ==
    [][/\ Called("update")
       /\ activePowerUp # <<>>
       /\ activePowerUp[1].type \in {"speed", "slow"}
       /\ CollectedTypes = {}
       /\ now - activePowerUp[1].startTime >= activePowerUp[1].duration
       /\ state = "playing"
       => /\ activePowerUp' = <<>>
          /\ currentSpeed' = hist.speedBefore
      ]_vars

-----------------------------------------------------------------------------
(* C17 *)

\* C17: there are never more than POWER_UP_MAX_COUNT (3) live power-ups; with
\* 3 live, spawnPowerUp() returns the engine exactly as it found it, whatever
\* the random stream, and an update() whose food pickup attempts the spawn
\* ends with the same power-ups it began with, less the expired ones.
C17_PowerUpCap ==
    [][/\ Len(powerUps') <= POWER_UP_MAX_COUNT
       /\ Len(powerUps) = POWER_UP_MAX_COUNT =>
              \A seed \in Seeds : spawnPowerUp(This(seed)) = This(seed)
       /\ Called("update") /\ last'.obs.powerUpTried /\ Len(powerUps) = POWER_UP_MAX_COUNT =>
              powerUps' = SelectSeq(powerUps, LAMBDA p : now - p.createdAt < p.lifetime)
      ]_vars

\* A food pickup has attempted a spawn on a board with 3 live power-ups: the
\* 3 on the board are the ones that were there, none has been made by the
\* attempt.
C17_SpawnRefusedAtCap ==
    /\ last.op = "update" /\ last.obs.stepped /\ last.obs.collision = "food"
    /\ last.obs.powerUpTried
    /\ now = MaxNow
    /\ Len(powerUps) = POWER_UP_MAX_COUNT
    /\ \A i \in 1..Len(powerUps) : powerUps[i].createdAt < now

-----------------------------------------------------------------------------
(* C18 *)

\* C18: spawnFood() puts the food on a cell that is free when it is called,
\* spawnPowerUp() below the cap puts the new power-up on such a cell, and
\* generateObstacles() puts its obstacles, as many as the level asks for and
\* the board has room for, on pairwise distinct cells that hold no segment,
\* food or power-up (the old obstacles are cleared first); nothing else on the
\* board moves.  Over the random streams every free cell is the outcome of
\* some spawn (checked where the streams are at least as many as the free
\* cells).  A step that eats food leaves the new food off the snake and off
\* the power-ups that were live, and init() leaves food and obstacles on cells
\* of their own.
C18_SpawnOnFreeCell ==
    [][/\ Called("spawnFood") /\ FreeCells # {} =>
              /\ Len(food') = 1
              /\ food'[1].position \in FreeCells
              /\ snake' = snake /\ powerUps' = powerUps /\ obstacles' = obstacles
              /\ Cardinality(FreeCells) <= RandModulus =>
                     {spawnFood(This(seed)).food[1].position : seed \in Seeds} = FreeCells
       /\ Called("spawnPowerUp") /\ FreeCells # {} /\ Len(powerUps) < POWER_UP_MAX_COUNT =>
              /\ Len(powerUps') = Len(powerUps) + 1
              /\ SubSeq(powerUps', 1, Len(powerUps)) = powerUps
              /\ powerUps'[Len(powerUps')].position \in FreeCells
              /\ snake' = snake /\ food' = food /\ obstacles' = obstacles
              /\ Cardinality(FreeCells) <= RandModulus =>
                     {spawnPowerUp(This(seed)).powerUps[Len(powerUps) + 1].position :
                         seed \in Seeds} = FreeCells
       /\ Called("generateObstacles") =>
              LET cleared == FreeCells \cup ObstacleCells
              IN  /\ DistinctCells(obstacles')
                  /\ \A i \in 1..Len(obstacles') : obstacles'[i].position \in cleared
                  /\ Len(obstacles') =
                         Min(Min(OBSTACLE_CONFIG(config.mode).count + stats.level - 1,
                                 MAX_OBSTACLES),
                             Cardinality(cleared))
                  /\ snake' = snake /\ food' = food /\ powerUps' = powerUps
                  /\ Cardinality(cleared) \in 1..RandModulus =>
                         {generateObstacles(This(seed)).obstacles[1].position : seed \in Seeds}
                             = cleared
       /\ StepTaken /\ last'.obs.collision = "food" /\ food' # food =>
              /\ food'[1].position \notin {snake'.segments[i] : i \in 1..Len(snake'.segments)}
              /\ food'[1].position \notin PowerUpCells
              /\ food'[1].position # Candidate
       /\ Called("init") =>
              /\ Len(food') = 1
              /\ DistinctCells(obstacles')
              /\ food'[1].position \notin {snake'.segments[i] : i \in 1..Len(snake'.segments)}
              /\ \A i \in 1..Len(obstacles') :
                     obstacles'[i].position \notin
                         {snake'.segments[j] : j \in 1..Len(snake'.segments)}
                             \cup {food'[1].position}
      ]_vars

\* spawnPowerUp() has put a third power-up on a board that holds the snake,
\* the food, two power-ups and the obstacles of level 4.
C18_PowerUpOnCrowdedBoard ==
    /\ last.op = "spawnPowerUp"
    /\ Len(powerUps) = POWER_UP_MAX_COUNT
    /\ DistinctCells(powerUps)
    /\ powerUps[POWER_UP_MAX_COUNT].position \notin
           SegmentCells \cup FoodCells \cup ObstacleCells
    /\ Len(food) = 1
    /\ Len(obstacles) >= 7

-----------------------------------------------------------------------------
(* C19 *)

\* C19: a step that eats the food removes it: after the call the store holds
\* a food spawned on a cell that was free or, when no cell was free, no food
\* at all; the eaten food is never left live under the snake.
C19_EatenFoodRemoved ==
    [][StepTaken /\ last'.obs.collision = "food" =>
          \/ food' = <<>>
          \/ /\ Len(food') = 1
             /\ food'[1].position # Candidate
             /\ food'[1].position \notin
                    {snake'.segments[i] : i \in 1..Len(snake'.segments)}
      ]_vars

-----------------------------------------------------------------------------
(* C20 *)

-----------------------------------------------------------------------------
(* C21 *)

\* C21: at difficulty normal, after init() and setState(Playing), with the
\* snake on its start strip facing right and a normal food (value 10) on the
\* cell ahead of the head, one update of 100 ms moves the head onto that
\* cell, makes the length 4 and emits FOOD_EATEN with points = 11, whatever
\* the wall-clock time that has passed since init().
C21_FirstPickupScenario ==
    [][/\ Called("update") /\ last'.arg = <<Q * 100>>
       /\ state = "playing" /\ config.difficulty = "normal"
       /\ frameCount = 0
       /\ snake = [segments |-> InitialSegments(config.gridSize),
                   direction |-> RIGHT, nextDirection |-> RIGHT]
       /\ food = <<[position |-> Candidate, type |-> "normal", value |-> BASE_FOOD_SCORE]>>
       => /\ snake'.segments[1] = Candidate
          /\ Len(snake'.segments) = 4
          /\ \E i \in 1..Len(events') :
                 /\ events'[i].type = "FOOD_EATEN"
                 /\ events'[i].data.points = 11
      ]_vars

-----------------------------------------------------------------------------
(* C22 *)

\* C22: a food pickup makes the combo min(combo + 1, MAX_COMBO) if the
\* previous pickup was less than COMBO_TIME_WINDOW ms earlier and 1 otherwise,
\* a pickup with no pickup before it since init() counting as otherwise; the
\* combo stays between 1 and MAX_COMBO and no call but a pickup or init()
\* changes it.
C22_ComboLaw ==
    [][/\ StepTaken /\ last'.obs.collision = "food" =>
              stats'.combo = IF stats.foodEaten > 0 /\ now - lastFoodTime < COMBO_TIME_WINDOW
                             THEN Min(stats.combo + 1, MAX_COMBO)
                             ELSE 1
       /\ stats'.combo \in 1..MAX_COMBO
       /\ ~(StepTaken /\ last'.obs.collision = "food") /\ ~Called("init") =>
              stats'.combo = stats.combo
       /\ Called("init") => stats'.combo = 1
      ]_vars

-----------------------------------------------------------------------------
(* C23 *)

\* C23: after init() and after every completed update(), the stored level is
\* floor(score / LEVEL_UP_THRESHOLD) + 1, however the score has changed.
C23_LevelFollowsScore ==
    last.op \in {"init", "update"} =>
        stats.level = (stats.score \div LEVEL_UP_THRESHOLD) + 1

-----------------------------------------------------------------------------
(* C24 *)

\* C24: in an obstacle-motion pass (the update() calls made at a frameCount
\* that is a multiple of ObstacleCadence) each moving obstacle reverses its
\* direction and stays in place when the next cell along its direction is out
\* of bounds or holds a snake segment or the food, and moves exactly one cell
\* along its direction otherwise; no obstacle enters a cell that holds a
\* snake segment or the food; static obstacles, and all obstacles outside a
\* pass, stay as they are.  (The snake and the food are the ones the pass
\* sees, those after the step of the same call; calls that regenerate the
\* obstacles by a level-up are left out.)
C24_ObstacleMotion ==
    [][Called("update") /\ state = "playing" /\ NoEventOf({"LEVEL_UP"}) =>
          LET held == {snake'.segments[j] : j \in 1..Len(snake'.segments)}
                          \cup {food'[j].position : j \in 1..Len(food')}
          IN  /\ Len(obstacles') = Len(obstacles)
              /\ \A i \in 1..Len(obstacles) :
                     LET o == obstacles[i]
                         next == <<o.position[1] + o.movingDirection[1],
                                   o.position[2] + o.movingDirection[2]>>
                     IN  /\ obstacles'[i] =
                                IF frameCount % ObstacleCadence # 0 \/ o.type # "moving"
                                THEN o
                                ELSE IF ~InGrid(next) \/ next \in held
                                THEN [o EXCEPT !.movingDirection = <<-@[1], -@[2]>>]
                                ELSE [o EXCEPT !.position = next]
                         /\ obstacles'[i].position # o.position =>
                                obstacles'[i].position \notin held
      ]_vars

\* The first pass after init() has turned an obstacle back in front of the
\* food or the snake, the snake being alive and the obstacles those of init().
C24_TurnedBackAtSnakeOrFood ==
    /\ last.op = "update" /\ frameCount = 1 /\ ~last.obs.died
    /\ \A j \in 1..Len(events) : events[j].type # "LEVEL_UP"
    /\ \E i \in 1..Len(obstacles) :
           /\ obstacles[i].type = "moving"
           /\ <<obstacles[i].position[1] - obstacles[i].movingDirection[1],
                obstacles[i].position[2] - obstacles[i].movingDirection[2]>>
                  \in SegmentCells \cup FoodCells

-----------------------------------------------------------------------------
(* C25 *)

\* C25: after init() and after every completed update() in Playing, the
\* spatial index holds exactly the current occupancy: at every cell, the ids
\* query(cell) returns are those of the snake segments, the food, the
\* power-ups and the obstacles now on that cell, and no others.
C25_IndexIsOccupancy ==
    (last.op = "init" \/ (last.op = "update" /\ state = "playing")) =>
        \A cell \in GridCells :
            {<<e.kind, e.key>> : e \in {x \in spatialGrid : x.position = cell}}
                = {<<"snake", i>> : i \in {j \in 1..Len(snake.segments) :
                                              snake.segments[j] = cell}}
                  \cup {<<"food", 0>> : i \in {j \in 1..Len(food) : food[j].position = cell}}
                  \cup {<<"powerup", powerUps[i].createdAt>> :
                            i \in {j \in 1..Len(powerUps) : powerUps[j].position = cell}}
                  \cup {<<"obstacle", i>> : i \in {j \in 1..Len(obstacles) :
                                                     obstacles[j].position = cell}}

-----------------------------------------------------------------------------
(* C26 *)

\* C26: a write into a value returned by getSnake, getFood, getPowerUps,
\* getObstacles, getActivePowerUp, getStats or getConfig, nested data
\* included, leaves every field of the engine as it was.
C26_SnapshotsAreDetached ==
    [][now' = now /\ last'.op \in Getters => UNCHANGED engineVars]_vars

-----------------------------------------------------------------------------
(* C27 *)

\* The call that made `callback` a subscriber of `eventType`: its first on()
\* since the last call of a handle for that pair; 0 when it is not subscribed.
C27_LastOff(eventType, callback) ==
    LET offs == {i \in 1..Len(subscriptions) :
                    subscriptions[i] = [op |-> "unsubscribe", eventType |-> eventType,
                                        callback |-> callback]}
    IN  IF offs = {} THEN 0 ELSE CHOOSE i \in offs : \A j \in offs : j <= i

C27_RegisteredAt(eventType, callback) ==
    LET ons == {i \in 1..Len(subscriptions) :
                   /\ i > C27_LastOff(eventType, callback)
                   /\ subscriptions[i] = [op |-> "on", eventType |-> eventType,
                                          callback |-> callback]}
    IN  IF ons = {} THEN 0 ELSE CHOOSE i \in ons : \A j \in ons : i <= j

C27_Subscribers(eventType) ==
    {callback \in Callbacks : C27_RegisteredAt(eventType, callback) > 0}

\* The subscribers of a type in the order of their registration.
C27_InOrder(eventType) ==
    LET S == C27_Subscribers(eventType)
    IN  CHOOSE q \in [1..Cardinality(S) -> S] :
            \A i, j \in 1..Cardinality(S) :
                i < j => C27_RegisteredAt(eventType, q[i]) < C27_RegisteredAt(eventType, q[j])

RECURSIVE C27_Deliveries(_)
C27_Deliveries(emitted) ==
    IF emitted = <<>> THEN <<>>
    ELSE LET q == C27_InOrder(Head(emitted).type)
         IN  [i \in 1..Len(q) |-> [callback |-> q[i], event |-> Head(emitted)]]
             \o C27_Deliveries(Tail(emitted))

-----------------------------------------------------------------------------
(* C28 *)

\* C28: every COLLISION event carries the classification of the collision
\* that caused it: "wall", "self" or "obstacle", the type checkCollision gave
\* the step that emitted the event.
C28_CollisionCarriesTag ==
    \A i \in 1..Len(events) :
        events[i].type = "COLLISION" =>
            /\ events[i].data.collisionType \in {"wall", "self", "obstacle"}
            /\ events[i].data.collisionType = last.obs.collision

-----------------------------------------------------------------------------
(* C29 *)

\* C29: an active effect lasts POWER_UP_DURATION of the engine's elapsed time
\* (the sum of deltaTime over the update calls processed in Playing): an
\* update that ends the effect without a new pickup finds at least that much
\* elapsed time on the engine's clock, however much wall-clock time went by
\* between the calls.
C29_EffectLastsInEngineTime ==
    [][(/\ Called("update")
        /\ Len(activePowerUp) > 0
        /\ Len(activePowerUp') = 0)
       => stats'.timeElapsed >= Q * POWER_UP_DURATION]_vars

-----------------------------------------------------------------------------
(* C30 *)

\* C30: whatever the state it is called in, init() leaves the snake on
\* (c,c),(c-1,c),(c-2,c), c = floor(gridSize / 2), direction and queued
\* direction right; score 0, level 1, combo 1, foodEaten 0, powerUpsCollected
\* 0, timeElapsed 0, lives those of the difficulty (easy 5, normal 3, hard 2,
\* insane 1), highScore as before; no power-up, no effect, accumulator 0, the
\* difficulty's initial move interval; one food and min(the mode's obstacle
\* count, 15) obstacles, all on distinct cells off the snake; and the state
\* value (Menu, Playing, ...) as before.
C30_InitPostcondition ==
    [][Called("init") =>
        LET c == config.gridSize \div 2
            placed == {food'[i].position : i \in 1..Len(food')}
                          \cup {obstacles'[i].position : i \in 1..Len(obstacles')}
        IN  /\ snake' = [segments |-> <<<<c, c>>, <<c - 1, c>>, <<c - 2, c>>>>,
                         direction |-> <<1, 0>>, nextDirection |-> <<1, 0>>]
            /\ stats' = [score |-> 0, level |-> 1, combo |-> 1, foodEaten |-> 0,
                         powerUpsCollected |-> 0, timeElapsed |-> 0,
                         lives |-> CASE config.difficulty = "easy" -> 5
                                     [] config.difficulty = "normal" -> 3
                                     [] config.difficulty = "hard" -> 2
                                     [] config.difficulty = "insane" -> 1,
                         highScore |-> stats.highScore]
            /\ powerUps' = <<>>
            /\ activePowerUp' = <<>>
            /\ moveAccumulator' = 0
            /\ currentSpeed' = Q * SPEED_CONFIG(config.difficulty).initial
            /\ Len(food') = 1
            /\ Len(obstacles') = Min(OBSTACLE_CONFIG(config.mode).count, 15)
            /\ Cardinality(placed) = Len(food') + Len(obstacles')
            /\ placed \cap {snake'.segments[i] : i \in 1..Len(snake'.segments)} = {}
            /\ placed \subseteq GridCells
            /\ state' = state
            /\ config' = config
      ]_vars

\* init() has been called on a game in progress: a board with a score, a
\* five-segment snake and obstacles of its level, after an update() processed
\* in Playing and a setState(Paused); the state is still Paused.
C30_RestartedWhilePaused ==
    /\ last.op = "init"
    /\ state = "paused"
    /\ frameCount = 2
    /\ stats.score = 0
    /\ Len(snake.segments) = 3

-----------------------------------------------------------------------------
(* The running game: the frame loop keeps calling update() while the wall
   clock advances from one frame to the next, from the pickup boards. The
   loop is observed until the clock reads LiveMaxNow. *)

LiveMaxNow == 15000
FrameClocks == {2500, 5000}

\* One frame: Date.now() has moved on since the last frame, and update() is
\* called with the time that passed.
FrameCall ==
    \E seed \in Seeds, d \in FrameClocks :
        /\ now + d <= LiveMaxNow
        /\ now' = now + d
        /\ Fields(update([This(seed) EXCEPT !.now = now + d], Q * d), "update", <<Q * d>>)

NextLive == FrameCall

\* The clock's part of a frame: FrameCall is the only step that moves it.
FrameDue == \E d \in FrameClocks : now + d <= LiveMaxNow /\ now' = now + d

\* The frame loop does not stop: requestAnimationFrame re-arms itself, so
\* a frame that stays due is run.
SpecLive == InitPickup /\ [][NextLive]_vars /\ WF_now(FrameDue)

-----------------------------------------------------------------------------
(* C31 *)

\* C31: while the freeze effect is active, obstacles are stopped: an update()
\* made with freeze active, and leaving it active, changes no obstacle's
\* position.
C31_FreezeStopsObstacles ==
    [][(/\ Called("update")
        /\ Effect = "freeze"
        /\ Len(activePowerUp') > 0 /\ activePowerUp'[1].type = "freeze"
        /\ Len(obstacles') = Len(obstacles))
       => \A i \in 1..Len(obstacles) : obstacles'[i].position = obstacles[i].position]_vars

-----------------------------------------------------------------------------
(* C32 *)

\* C32: in the modes classic, survival, challenge and multiplayer no power-up
\* is ever spawned: in every reachable state the live power-up list is empty,
\* there is no active effect and powerUpsCollected is 0; and a call changes
\* the move interval only by a level-up (or by init's reset).
C32_NoPowerUpsOutsideArcade ==
    /\ [](config.mode # "arcade" =>
            /\ powerUps = <<>>
            /\ activePowerUp = <<>>
            /\ stats.powerUpsCollected = 0)
    /\ [][(config.mode # "arcade" /\ currentSpeed' # currentSpeed) =>
              \/ last'.op = "init"
              \/ /\ SomeEventOf({"LEVEL_UP"})
                 /\ stats'.level > stats.level]_vars

\* In another mode than arcade a step has eaten a food, and the pickup has
\* raised the level and changed the move interval.
C32_LevelUpOutsideArcade ==
    /\ config.mode # "arcade"
    /\ last.op = "update"
    /\ last.obs.collision = "food"
    /\ stats.foodEaten > 0
    /\ stats.level > 1
    /\ currentSpeed # Q * SPEED_CONFIG(config.difficulty).initial

-----------------------------------------------------------------------------
(* C33 *)

\* C33: a step whose head is classified power-up takes the power-up on the
\* entered cell out of the live list and leaves the others as they were,
\* adds 1 to powerUpsCollected, emits one POWER_UP_COLLECTED event carrying
\* that power-up, puts the head on the cell and drops the tail, so that the
\* segment count is unchanged unless the pickup is a shrink; and the score
\* changes only for a double-points pickup.
C33_PickupStep ==
    [][(StepTaken /\ last'.obs.collision = "powerup") =>
        \E idx \in 1..Len(powerUps) :
            LET powerUp == powerUps[idx]
                collected == {i \in 1..Len(events') : events'[i].type = "POWER_UP_COLLECTED"}
            IN  /\ powerUp.position = last'.obs.candidate
                /\ powerUps' = SelectSeq(powerUps, LAMBDA p : p # powerUp)
                /\ Len(powerUps') = Len(powerUps) - 1
                /\ stats'.powerUpsCollected = stats.powerUpsCollected + 1
                /\ Cardinality(collected) = 1
                /\ \A i \in collected : events'[i].data.powerUp = powerUp
                /\ snake'.segments[1] = last'.obs.candidate
                /\ powerUp.type # "shrink" =>
                       snake'.segments = <<last'.obs.candidate>>
                                           \o SubSeq(snake.segments, 1, Len(snake.segments) - 1)
                /\ powerUp.type # "double" => stats'.score = stats.score
      ]_vars

\* A step has collected the power-up ahead of a five-segment snake, not a
\* shrink and not a double-points; the other power-up is still live.
C33_CollectedOneOfTwo ==
    /\ last.op = "update"
    /\ last.obs.stepped
    /\ last.obs.collision = "powerup"
    /\ Effect \in {"speed", "slow", "ghost", "invincible", "magnet", "freeze"}
    /\ stats.powerUpsCollected = 1
    /\ Len(powerUps) = 1
    /\ Len(snake.segments) = 5
    /\ SnakeHead = last.obs.candidate

-----------------------------------------------------------------------------
(* C34 *)

\* C34: a double-points pickup leaves the score at exactly twice the score
\* before it; a shrink pickup by a snake of n segments keeps the first
\* ceil(n / 2) segments of the moved snake when n > 3 and the whole moved
\* snake when n <= 3; the six other types change neither the score nor the
\* segment count.
C34_ImmediateEffects ==
    [][(StepTaken /\ last'.obs.collision = "powerup") =>
        LET n == Len(snake.segments)
            moved == <<last'.obs.candidate>> \o SubSeq(snake.segments, 1, n - 1)
        IN  \A type \in CollectedTypes :
                /\ type = "double" =>
                       stats'.score = 2 * stats.score /\ snake'.segments = moved
                /\ type = "shrink" =>
                       /\ stats'.score = stats.score
                       /\ n > 3 => snake'.segments = SubSeq(moved, 1, (n + 1) \div 2)
                       /\ n <= 3 => snake'.segments = moved
                /\ type \in {"speed", "slow", "ghost", "invincible", "magnet", "freeze"} =>
                       stats'.score = stats.score /\ Len(snake'.segments) = n
      ]_vars

\* A snake of three segments has picked up a shrink and still has its three
\* segments.
C34_ShrinkLeftThree ==
    /\ last.op = "update"
    /\ last.obs.stepped
    /\ last.obs.collision = "powerup"
    /\ Effect = "shrink"
    /\ stats.powerUpsCollected = 1
    /\ stats.foodEaten = 2
    /\ Len(snake.segments) = 3

-----------------------------------------------------------------------------
(* C35 *)

\* C35: a speed pickup leaves the move interval at max(half the interval, 20
\* ms) and never above the interval before the pickup; a slow pickup leaves
\* it at min(twice the interval, 300 ms) and never below the interval before
\* the pickup; at every difficulty and level.
C35_SpeedAndSlowAreMonotone ==
    [][(StepTaken /\ last'.obs.collision = "powerup") =>
        /\ "speed" \in CollectedTypes =>
               /\ 2 * currentSpeed' = Max(currentSpeed, 2 * Q * 20)
               /\ currentSpeed' <= currentSpeed
        /\ "slow" \in CollectedTypes =>
               /\ currentSpeed' = Min(2 * currentSpeed, Q * 300)
               /\ currentSpeed' >= currentSpeed
      ]_vars

-----------------------------------------------------------------------------
(* C36 *)

\* C36: when a food pickup makes floor(score / 100) + 1 exceed the stored
\* level, the same step stores that value as the level (several levels at
\* once if need be), sets the move interval to max(initial - (level - 1) *
\* increment, min) of the difficulty, replaces the obstacles by min(mode's
\* count + level - 1, 15) obstacles on free cells (fewer only when the free
\* cells run out) and emits one LEVEL_UP event with the new level; and no
\* call but init() lowers the stored level.
C36_LevelUpOnPickup ==
    [][/\ (/\ StepTaken
           /\ last'.obs.collision = "food"
           /\ (stats'.score \div 100) + 1 > stats.level)
          => LET newLevel == (stats'.score \div 100) + 1
                 speedConfig == SPEED_CONFIG(config.difficulty)
                 target == Min(OBSTACLE_CONFIG(config.mode).count + newLevel - 1, 15)
                 taken == {snake'.segments[i] : i \in 1..Len(snake'.segments)}
                              \cup PowerUpCells
                 cells == {obstacles'[i].position : i \in 1..Len(obstacles')}
                 levelUps == {i \in 1..Len(events') : events'[i].type = "LEVEL_UP"}
             IN  /\ stats'.level = newLevel
                 /\ activePowerUp' = activePowerUp =>
                        currentSpeed' = Q * Max(speedConfig.initial
                                                  - (newLevel - 1) * speedConfig.increment,
                                                speedConfig.min)
                 /\ Len(obstacles') = Min(target, Cardinality(GridCells \ taken))
                 /\ frameCount % ObstacleCadence # 0 =>
                        /\ Cardinality(cells) = Len(obstacles')
                        /\ cells \subseteq GridCells \ taken
                        /\ \A i \in 1..Len(food') : food'[i].position \notin cells
                 /\ Cardinality(levelUps) = 1
                 /\ \A i \in levelUps : events'[i].data.level = newLevel
       /\ last'.op # "init" => stats'.level >= stats.level
      ]_vars

\* A food pickup has raised the level by more than one.
C36_JumpedLevels ==
    /\ last.op = "update"
    /\ last.obs.stepped
    /\ last.obs.collision = "food"
    /\ \E i \in 1..Len(events) :
           /\ events[i].type = "LEVEL_UP"
           /\ events[i].data.level = stats.level
    /\ stats.level = (stats.score \div 100) + 1
    /\ stats.level >= 5
    /\ Len(obstacles) > 0

-----------------------------------------------------------------------------
(* C37 *)

\* C37: a step is resolved on the cell the head enters: when ghost carries
\* the head through a wall, a food on the wrapped cell is eaten, a power-up
\* on it is collected, and a snake segment on it makes the step a
\* self-overlap (the snake dies).
C37_WrappedCellIsResolved ==
    [][(/\ StepTaken
        /\ last'.obs.effect = "ghost"
        /\ last'.obs.collision = "wall")
       => LET wrapped == OnTorus(last'.obs.candidate)
          IN  /\ wrapped \in FoodCells => SomeEventOf({"FOOD_EATEN"})
              /\ wrapped \in PowerUpCells => SomeEventOf({"POWER_UP_COLLECTED"})
              /\ wrapped \in {snake.segments[i] : i \in 1..(Len(snake.segments) - 1)}
                     => last'.obs.died
      ]_vars

-----------------------------------------------------------------------------
(* C38 *)

\* C38: whenever no effect is active, after init() and after any completed
\* update(), the move interval is max(initial - (level - 1) * increment, min)
\* of the configured difficulty at the stored level.
C38_IntervalFollowsLevel ==
    (last.op \in {"init", "update"} /\ activePowerUp = <<>>) =>
        currentSpeed = Q * Max(SPEED_CONFIG(config.difficulty).initial
                                 - (stats.level - 1) * SPEED_CONFIG(config.difficulty).increment,
                               SPEED_CONFIG(config.difficulty).min)

-----------------------------------------------------------------------------
(* C39 *)

\* C39: under any sequence of calls, setState(PLAYING) after a game over
\* without init() included, stats.lives is never negative, and GAME_OVER is
\* emitted at most once between two init() calls: no update() emits it when
\* the lives were already used up.
C39_LivesAndGameOver ==
    /\ [](stats.lives >= 0)
    /\ [][(Called("update") /\ SomeEventOf({"GAME_OVER"})) => stats.lives > 0]_vars

-----------------------------------------------------------------------------
(* C40 *)

\* An effect is active whose duration ends while the loop is observed.
EffectDue ==
    /\ activePowerUp # <<>>
    /\ activePowerUp[1].startTime + activePowerUp[1].duration <= LiveMaxNow

\* A power-up lies on the board whose lifetime ends while the loop is observed.
PowerUpDue ==
    \E i \in 1..Len(powerUps) : powerUps[i].createdAt + powerUps[i].lifetime <= LiveMaxNow

\* C40: while the engine stays in Playing, update() keeps being called and
\* time advances, every active effect eventually ends or is replaced by a
\* new pickup, and every power-up on the board is eventually removed; an
\* effect is cleared only by an update() reading the clock at least its
\* duration after its start.
C40_EffectsAndPowerUpsEnd ==
    /\ (state = "playing" /\ EffectDue) ~> (state # "playing" \/ ~EffectDue)
    /\ (state = "playing" /\ PowerUpDue) ~> (state # "playing" \/ ~PowerUpDue)
    /\ [][(activePowerUp # <<>> /\ activePowerUp' = <<>>)
            => /\ last'.op = "update"
               /\ now' - activePowerUp[1].startTime >= activePowerUp[1].duration]_vars

\* An effect ran out and the power-up left on the board expired, the game
\* still running.
C40_EffectRanOut ==
    /\ state = "playing"
    /\ stats.powerUpsCollected = 1
    /\ activePowerUp = <<>>
    /\ powerUps = <<>>
    /\ now >= POWER_UP_LIFETIME

====
